---- MODULE Spec2Model ----
(***************************************************************************)
(* Model of the reddit-monitor triage pipeline: the JSON-file priority      *)
(* queue (src/src/queue_manager.py), the batch classifier with provider     *)
(* failover (src/src/gemini_analyzer.py) and the run of main()              *)
(* (src/src/main.py).                                                       *)
(*                                                                          *)
(* Text is a sequence of one-character strings, so that lower-casing and    *)
(* substring search are computed as Python computes them.                   *)
(***************************************************************************)
EXTENDS Integers, Sequences, FiniteSets, TLC

(***************************************************************************)
(* Bounds of the model.                                                     *)
(***************************************************************************)
\* Highest value of the logical clock behind datetime.now(): the number of
\* queue entries ever created in one behaviour.
MaxClock == 7
\* Number of queue API calls in one behaviour of SpecQueue.
MaxOps == 3
\* Number of analyze_batch calls in one process of SpecAnalyze.
MaxCalls == 2
\* Longest list handed to pre_filter in SpecFilter.
MaxItems == 3
\* invocations of main() in a row
MaxRuns == 2
\* ITEMS_PER_RUN (queue_manager.py:19, 40 in the source) and BATCH_SIZE
\* (gemini_analyzer.py:27, 20 in the source), scaled down: a run takes up to
\* four entries and classifies them in chunks of two.
ITEMS_PER_RUN == 4
BATCH_SIZE == 2

(***************************************************************************)
(* Constants of the program.                                                *)
(***************************************************************************)
\* gemini_analyzer.py:29
MAX_RETRIES == 1
\* prefilter.py:15
MAX_POST_AGE_DAYS == 7
\* config.py:84
MAX_PROCESSED_POSTS == 5000

(***************************************************************************)
(* Text: str.lower(), concatenation and the `in` substring test.            *)
(***************************************************************************)
LowerChar(c) ==
    CASE c = "A" -> "a" [] c = "P" -> "p" [] c = "S" -> "s"
      [] c = "T" -> "t" [] c = "O" -> "o" [] c = "L" -> "l"
      [] c = "J" -> "j" [] c = "I" -> "i"
      [] OTHER -> c

lower(s) == [i \in 1..Len(s) |-> LowerChar(s[i])]

\* Python's `kw in text`
contains(text, kw) ==
    \E i \in 0..(Len(text) - Len(kw)) :
        \A j \in 1..Len(kw) : text[i + j] = kw[j]

(***************************************************************************)
(* config.py: the keyword table, cut down to five of its entries            *)
(* ('tool', 'app', 'track', 'scale', 'growth'), in the order of the file.   *)
(***************************************************************************)
RELEVANCE_KEYWORDS ==
    << <<"t","o","o","l">>,
       <<"a","p","p">>,
       <<"t","r","a","c","k">>,
       <<"s","c","a","l","e">>,
       <<"g","r","o","w","t","h">> >>

\* config.py: four of the exclude phrases ('job', 'sale', 'black friday', 'API')
EXCLUDE_KEYWORDS ==
    << <<"j","o","b">>, <<"s","a","l","e">>,
       <<"b","l","a","c","k"," ","f","r","i","d","a","y">>, <<"A","P","I">> >>

(***************************************************************************)
(* Items as the Content Source hands them over.  has_id says whether the    *)
(* dict has an 'id' key; without it the link is the identity.  published    *)
(* is "missing", "unparseable" or "date"; age_days is then the age of the   *)
(* post, in days, at the time of the run.                                   *)
(***************************************************************************)
Item(has_id, id, link, type, title, content, published, age_days) ==
    [has_id |-> has_id, id |-> id, link |-> link, type |-> type,
     title |-> title, content |-> content,
     published |-> published, age_days |-> age_days]

\* "Tool" / "track"                         -> score 2
item_a == Item(TRUE, "a", "la", "post", <<"T","o","o","l">>,
               <<"t","r","a","c","k">>, "date", 7)
\* "APP tool" / "track scale growth"        -> score 5
item_b == Item(TRUE, "b", "lb", "post", <<"A","P","P"," ","t","o","o","l">>,
               <<"t","r","a","c","k"," ","s","c","a","l","e"," ","g","r","o","w","t","h">>,
               "date", 0)
\* "app" / "Scale"                          -> score 2
item_c == Item(TRUE, "c", "lc", "comment", <<"a","p","p">>, <<"S","c","a","l","e">>,
               "missing", 0)
\* "hi" / ""                                -> score 0
item_d == Item(TRUE, "d", "ld", "post", <<"h","i">>, <<>>, "unparseable", 0)
\* no native id; "Apps" / "tools"           -> score 2 ('app' in 'apps')
item_e == Item(FALSE, "", "e", "search", <<"A","p","p","s">>, <<"t","o","o","l","s">>,
               "date", 1)
\* "Job" / "app"                            -> dropped by the exclusion rule
item_j == Item(TRUE, "j", "lj", "post", <<"J","o","b">>, <<"a","p","p">>, "date", 0)
\* "tool" / "", eight days old              -> dropped by the age rule
item_o == Item(TRUE, "o", "lo", "post", <<"t","o","o","l">>, <<>>, "date", 8)

\* "big black" / "friday deal": 'black friday' across the title's end
item_f == Item(TRUE, "f", "lf", "post", <<"b","i","g"," ","b","l","a","c","k">>,
               <<"f","r","i","d","a","y"," ","d","e","a","l">>, "date", 0)
\* "mojo" / "bits": 'job' only when title and content are joined directly
item_g == Item(TRUE, "g", "lg", "post", <<"m","o","j","o">>, <<"b","i","t","s">>,
               "date", 0)
\* "old" / "", a date that does not parse, thirty days old
item_u == Item(TRUE, "u", "lu", "post", <<"o","l","d">>, <<>>, "unparseable", 30)

\* One pass of the Content Source: the feed in feed order; the post a is met
\* twice (once in its subreddit feed, once more later in the pass).
Feed == <<item_e, item_j, item_a, item_b, item_c, item_d, item_a, item_o>>

\* what one fetch can return: a run of consecutive entries of the feed (the
\* entries that are new since the last pass), or nothing
FetchChoices ==
    {SubSeq(Feed, w[1], w[2]) :
        w \in {<<1, 0>>, <<1, 3>>, <<2, 2>>, <<3, 4>>, <<3, 7>>, <<6, 8>>}}

Min(x, y) == IF x <= y THEN x ELSE y

Range(s) == {s[i] : i \in DOMAIN s}

(***************************************************************************)
(* queue_manager.py                                                         *)
(***************************************************************************)
\* sum(1 for kw in RELEVANCE_KEYWORDS if kw.lower() in text)
keyword_hits(item) ==
    LET text == lower(item.title \o <<" ">> \o item.content)
    IN Cardinality({k \in 1..Len(RELEVANCE_KEYWORDS) :
                        contains(text, lower(RELEVANCE_KEYWORDS[k]))})

\* keyword_hits of every item of the feed, computed once
ScoreTable == [item \in {Feed[i] : i \in DOMAIN Feed} |-> keyword_hits(item)]

calculate_relevance_score(item) == ScoreTable[item]

\* a read that fails and falls back to the empty list
load_queue_falls_back(file) == <<>>

\* the file holds the queue; a missing file reads as the empty list
load_queue(file) == file

\* what a write of the queue file can do: succeed; fail before the file is
\* touched (os.makedirs or open raises); fail after open(QUEUE_FILE, 'w') has
\* truncated the file (json.dump or the closing flush raises)
WriteOutcomes == {"ok", "open_fails", "dump_fails"}

\* The file after save_queue(queue); every failure is caught and logged.  A
\* file cut short is no JSON document: load_queue catches the parse error and
\* returns [], so the file then stands for the empty list.
save_queue(file, queue, write) ==
    CASE write = "ok" -> queue
      [] write = "open_fails" -> file
      [] write = "dump_fails" -> <<>>

\* item.get('id', item.get('link', ''))
item_id_of(item) == IF item.has_id THEN item.id ELSE item.link

queue_item(item, score, now) ==
    [id |-> item_id_of(item), type |-> item.type, title |-> item.title,
     content |-> item.content, link |-> item.link,
     relevance_score |-> score, added_at |-> now]

\* list.sort(key=score, reverse=True) places one more element: behind every
\* element whose key is not smaller (Python's sort is stable, also reversed)
insert_by_score(sorted, e) ==
    LET k == Cardinality({i \in 1..Len(sorted) :
                  sorted[i].relevance_score >= e.relevance_score})
    IN SubSeq(sorted, 1, k) \o <<e>> \o SubSeq(sorted, k + 1, Len(sorted))

\* the same with equal keys reversed, as sorted(queue, key=score)[::-1] does
insert_by_score_unstable(sorted, e) ==
    LET k == Cardinality({i \in 1..Len(sorted) :
                  sorted[i].relevance_score > e.relevance_score})
    IN SubSeq(sorted, 1, k) \o <<e>> \o SubSeq(sorted, k + 1, Len(sorted))

RECURSIVE sort_by_score(_)
RECURSIVE sort_by_score_unstable(_)
RECURSIVE add_loop(_, _, _, _, _, _)
RECURSIVE add_loop_no_processed_check(_, _, _, _, _, _)

sort_by_score_unstable(queue) ==
    IF queue = <<>> THEN <<>>
    ELSE insert_by_score_unstable(
             sort_by_score_unstable(SubSeq(queue, 1, Len(queue) - 1)),
             queue[Len(queue)])

\* queue.sort(key=lambda x: x.get('relevance_score', 0), reverse=True)
sort_by_score(queue) ==
    IF queue = <<>> THEN <<>>
    ELSE insert_by_score(sort_by_score(SubSeq(queue, 1, Len(queue) - 1)),
                         queue[Len(queue)])

\* the loop without the test against processed_ids
add_loop_no_processed_check(queue, items, existing_ids, processed_ids, added_count, now) ==
    IF items = <<>> THEN [queue |-> queue, added_count |-> added_count, now |-> now]
    ELSE LET item == Head(items)
             item_id == item_id_of(item)
         IN IF item_id \in existing_ids
            THEN add_loop_no_processed_check(queue, Tail(items), existing_ids,
                                             processed_ids, added_count, now)
            ELSE add_loop_no_processed_check(
                     Append(queue, queue_item(item, calculate_relevance_score(item), now + 1)),
                     Tail(items), existing_ids, processed_ids, added_count + 1, now + 1)

\* the for loop of add_to_queue; existing_ids is computed once, before the
\* loop, and is not extended by the loop
add_loop(queue, items, existing_ids, processed_ids, added_count, now) ==
    IF items = <<>> THEN [queue |-> queue, added_count |-> added_count, now |-> now]
    ELSE LET item == Head(items)
             item_id == item_id_of(item)
         IN IF item_id \in existing_ids \/ item_id \in processed_ids
            THEN add_loop(queue, Tail(items), existing_ids, processed_ids,
                          added_count, now)
            ELSE add_loop(
                     Append(queue, queue_item(item, calculate_relevance_score(item), now + 1)),
                     Tail(items), existing_ids, processed_ids, added_count + 1, now + 1)

\* add_to_queue without the sort
add_to_queue_unsorted(file, items, processed_ids, now, write) ==
    LET queue == load_queue(file)
        existing_ids == {queue[i].id : i \in DOMAIN queue}
        r == add_loop(queue, items, existing_ids, processed_ids, 0, now)
    IN [file |-> save_queue(file, r.queue, write),
        added_count |-> r.added_count, now |-> r.now]

add_to_queue(file, items, processed_ids, now, write) ==
    LET queue == load_queue(file)
        existing_ids == {queue[i].id : i \in DOMAIN queue}
        r == add_loop(queue, items, existing_ids, processed_ids, 0, now)
    IN [file |-> save_queue(file, sort_by_score(r.queue), write),
        added_count |-> r.added_count, now |-> r.now]

\* a peek that takes the entries out of the file (a destructive dequeue)
get_items_to_process_pop(file, count) ==
    LET queue == load_queue(file)
        items == SubSeq(queue, 1, Min(count, Len(queue)))
    IN [file |-> SubSeq(queue, Len(items) + 1, Len(queue)), items |-> items]

\* queue[:count]; the file is read and not written
get_items_to_process(file, count) ==
    LET queue == load_queue(file)
    IN [file |-> file, items |-> SubSeq(queue, 1, Min(count, Len(queue)))]

SelectSeqNotIn(queue, ids) == SelectSeq(queue, LAMBDA e : e.id \notin ids)

RECURSIVE drop_first_match(_, _)
drop_first_match(queue, ids) ==
    IF queue = <<>> THEN <<>>
    ELSE IF Head(queue).id \in ids THEN Tail(queue)
    ELSE <<Head(queue)>> \o drop_first_match(Tail(queue), ids)

\* a removal that stops at the first entry it finds
remove_from_queue_first_only(file, item_ids, write) ==
    LET queue == load_queue(file)
        new_queue == drop_first_match(queue, item_ids)
    IN [file |-> save_queue(file, new_queue, write),
        removed_count |-> Len(queue) - Len(new_queue)]

remove_from_queue(file, item_ids, write) ==
    LET queue == load_queue(file)
        new_queue == SelectSeqNotIn(queue, item_ids)
    IN [file |-> save_queue(file, new_queue, write),
        removed_count |-> Len(queue) - Len(new_queue)]

\* get_queue_stats()['total']
get_queue_stats_total(file) == Len(load_queue(file))

(***************************************************************************)
(* prefilter.py                                                             *)
(***************************************************************************)
\* pub_date < now - timedelta(days=MAX_POST_AGE_DAYS); a missing or
\* unparseable date never drops the item
\* the age rule with the boundary day dropped (pub_date <= cutoff_date)
is_post_too_old_at_cutoff(item) ==
    IF item.published = "missing" THEN FALSE
    ELSE IF item.published = "unparseable" THEN FALSE
    ELSE item.age_days >= MAX_POST_AGE_DAYS

is_post_too_old(item) ==
    IF item.published = "missing" THEN FALSE
    ELSE IF item.published = "unparseable" THEN FALSE
    ELSE item.age_days > MAX_POST_AGE_DAYS

should_exclude(item) ==
    LET text == lower(item.title \o <<" ">> \o item.content)
    IN \E k \in 1..Len(EXCLUDE_KEYWORDS) : contains(text, lower(EXCLUDE_KEYWORDS[k]))

\* whether pre_filter keeps the item, for every item of the feed, computed once
KeepTable ==
    [item \in {Feed[i] : i \in DOMAIN Feed} \cup {item_f, item_g, item_u} |->
        ~is_post_too_old(item) /\ ~should_exclude(item)]

\* pre_filter keeping only the items that hit a relevance keyword
pre_filter_needs_keyword(items) ==
    SelectSeq(items, LAMBDA item : KeepTable[item] /\ keyword_hits(item) > 0)

pre_filter(items) == SelectSeq(items, LAMBDA item : KeepTable[item])

\* candidate lists handed to add_to_queue: runs of consecutive entries of
\* the filtered feed
CandidateChoices ==
    LET f == pre_filter(Feed)
    IN {SubSeq(f, i, j) : i \in 1..(Len(f) + 1), j \in 0..Len(f)}

(***************************************************************************)
(* main.py: chunk_list and the handling of one chunk's verdicts             *)
(***************************************************************************)
\* [items[i:i + chunk_size] for i in range(0, len(items), chunk_size)]
chunk_list(items, chunk_size) ==
    [k \in 1..((Len(items) + chunk_size - 1) \div chunk_size) |->
        SubSeq(items, (k - 1) * chunk_size + 1, Min(k * chunk_size, Len(items)))]

\* The handling of one verdict (main.py 118-124).  A verdict is a record:
\* is_dict (the element is a JSON object), has_index (it has an 'index' that
\* is not null), index_type ("int", "float" for index + 0.5, "str"), index,
\* is_relevant (the truth value of result.get('is_relevant', False)) and
\* relevant_is_bool (that value is a JSON boolean).
\* idx >= len(batch_items) raises TypeError for an index that is no number
compare_raises(r) == r.is_dict /\ r.has_index /\ r.index_type = "str"

\* the verdict passes "idx is None or idx >= len(batch_items)"
passes_index_test(r, n) ==
    /\ r.is_dict /\ r.has_index
    /\ r.index_type # "str"
    /\ ~(r.index >= n)

\* batch_items[idx] raises: TypeError for a float, IndexError below -len
subscript_raises(r, n) ==
    /\ passes_index_test(r, n) /\ r.is_relevant
    /\ (r.index_type = "float" \/ r.index < 0 - n)

\* the loop over results raises at some verdict, and main() with it
results_raise(results, batch_items) ==
    \E k \in DOMAIN results :
        compare_raises(results[k]) \/ subscript_raises(results[k], Len(batch_items))

\* the verdicts the loop has handled when it raises: those before the first
\* verdict that raises
handled_before_raise(results, batch_items) ==
    LET raising == {k \in DOMAIN results :
                      \/ compare_raises(results[k])
                      \/ subscript_raises(results[k], Len(batch_items))}
        first == CHOOSE k \in raising : \A j \in raising : k <= j
    IN SubSeq(results, 1, first - 1)

\* batch_items[idx]: a negative idx counts from the end of the list
subscript(batch_items, idx) ==
    batch_items[(IF idx < 0 THEN Len(batch_items) + idx ELSE idx) + 1]

\* the list relevant_in_batch when the loop over results does not raise
relevant_in_batch(results, batch_items) ==
    LET honoured == SelectSeq(results, LAMBDA r :
                        /\ passes_index_test(r, Len(batch_items))
                        /\ r.is_relevant)
    IN [k \in 1..Len(honoured) |-> subscript(batch_items, honoured[k].index)]

\* relevant_stats[content_type] += 1 for every relevant item
count_types(stats, items) ==
    [t \in DOMAIN stats |->
        stats[t] + Cardinality({k \in DOMAIN items : items[k].type = t})]

\* send_batch_to_feishu giving up at the first send that fails
send_batch_to_feishu_until_failure(items, oks) ==
    Cardinality({k \in DOMAIN items : \A j \in 1..k : oks[j]})

\* send_batch_to_feishu: one send per item (oks[k]: the endpoint accepts the
\* k-th; send_to_feishu turns every failure into False), successes counted
send_batch_to_feishu(items, oks) ==
    Cardinality({k \in DOMAIN items : oks[k]})

\* send_summary_to_feishu: whether the summary is posted (no endpoint or no
\* relevant item: nothing is posted)
send_summary_to_feishu(url, relevant) == url /\ relevant # 0

\* item.get('id', '') of every entry of a chunk, empty ids left out
ids_of(items) == [k \in DOMAIN items |-> items[k].id]

(***************************************************************************)
(* The checkpoint store (src/reddit_fetcher.py is not part of the sources;  *)
(* modelled from section 4.3 of the specification).                         *)
(***************************************************************************)
load_processed_posts(file) == file

\* the files a save can leave: the ids, cut to the cap when there are more
save_processed_posts(ids) ==
    IF Cardinality(ids) <= MAX_PROCESSED_POSTS THEN {ids}
    ELSE {kept \in SUBSET ids : Cardinality(kept) = MAX_PROCESSED_POSTS}

(***************************************************************************)
(* gemini_analyzer.py                                                       *)
(***************************************************************************)
VerdictOf(is_dict, has_index, index_type, index, is_relevant, relevant_is_bool) ==
    [is_dict |-> is_dict, has_index |-> has_index, index_type |-> index_type,
     index |-> index, is_relevant |-> is_relevant,
     relevant_is_bool |-> relevant_is_bool]

\* a verdict with an integer index and a boolean is_relevant
Verdict(is_dict, has_index, index, is_relevant) ==
    VerdictOf(is_dict, has_index, "int", index, is_relevant, TRUE)

NoVerdict == Verdict(FALSE, FALSE, 0, FALSE)

\* a response text is a sequence of tokens: "fence_json" and "fence" are the
\* code-fence markers, "prose" any other text, "[" and "]" the brackets and
\* "verdict" one element of the array
Tok(kind) == [kind |-> kind, v |-> NoVerdict]
VTok(v) == [kind |-> "verdict", v |-> v]

\* {"index": i, "is_relevant": i in rel} for every item of a chunk of n
VerdictList(n, rel) == [i \in 1..n |-> Verdict(TRUE, TRUE, i - 1, (i - 1) \in rel)]

ArrayText(verdicts) ==
    <<Tok("[")>> \o [i \in DOMAIN verdicts |-> VTok(verdicts[i])] \o <<Tok("]")>>

\* verdict lists a provider is free to answer and the prompt does not rule
\* out: more verdicts than items, an index counted from the end, an element
\* that is no object, a missing or too large index, an is_relevant that is
\* a string, and an index that is a string or a fraction
MalformedLists(n) ==
    { VerdictList(n, {0}) \o <<Verdict(TRUE, TRUE, 0, TRUE)>>,
      <<Verdict(TRUE, TRUE, -1, TRUE)>>,
      <<Verdict(FALSE, FALSE, 0, FALSE), Verdict(TRUE, FALSE, 0, TRUE),
        Verdict(TRUE, TRUE, n, TRUE),
        VerdictOf(TRUE, TRUE, "float", 0, FALSE, TRUE),
        Verdict(TRUE, TRUE, 0, TRUE)>>,
      <<VerdictOf(TRUE, TRUE, "int", 0, TRUE, FALSE)>>,
      <<Verdict(TRUE, TRUE, 0, TRUE), VerdictOf(TRUE, TRUE, "str", 0, TRUE, TRUE)>>,
      <<VerdictOf(TRUE, TRUE, "float", 0, TRUE, TRUE)>> }

\* the texts a provider can answer for a chunk of n items
ResponseTexts(n) ==
    {ArrayText(VerdictList(n, rel)) : rel \in SUBSET (0..(n - 1))}
    \cup { <<Tok("fence_json")>> \o ArrayText(VerdictList(n, {0})) \o <<Tok("fence")>>,
           <<Tok("prose")>> \o ArrayText(VerdictList(n, {n - 1})),
           <<Tok("prose")>> \o ArrayText(VerdictList(n, {0})) \o <<Tok("prose")>>
               \o ArrayText(VerdictList(n, {})),
           <<Tok("prose")>>,
           ArrayText(<<>>),
           <<Tok("[")>> \o <<VTok(Verdict(TRUE, TRUE, 0, TRUE))>> }
    \cup {ArrayText(l) : l \in MalformedLists(n)}

\* what one provider call can do: answer a text, answer None, or raise
Outcomes(n) ==
    {[kind |-> "text", text |-> t, has_429 |-> FALSE, has_quota |-> FALSE] :
        t \in ResponseTexts(n)}
    \cup {[kind |-> "none", text |-> <<>>, has_429 |-> FALSE, has_quota |-> FALSE]}
    \cup {[kind |-> "raise", text |-> <<>>, has_429 |-> h[1], has_quota |-> h[2]] :
            h \in {<<TRUE, FALSE>>, <<FALSE, TRUE>>, <<FALSE, FALSE>>}}

\* json.loads(text) gives a list
is_json_list(t) ==
    /\ Len(t) >= 2
    /\ t[1].kind = "[" /\ t[Len(t)].kind = "]"
    /\ \A i \in 2..(Len(t) - 1) : t[i].kind = "verdict"

list_of(t) == [i \in 1..(Len(t) - 2) |-> t[i + 1].v]

parse_batch_response(text) ==
    LET t == SelectSeq(text, LAMBDA k : k.kind \notin {"fence_json", "fence"})
        opens == {i \in DOMAIN t : t[i].kind = "["}
        closes == {i \in DOMAIN t : t[i].kind = "]"}
    IN IF is_json_list(t) THEN list_of(t)
       ELSE IF opens = {} \/ closes = {} THEN <<>>
       ELSE LET first == CHOOSE i \in opens : \A j \in opens : i <= j
                last == CHOOSE i \in closes : \A j \in closes : j <= i
                match == SubSeq(t, first, last)
            IN IF first < last /\ is_json_list(match) THEN list_of(match) ELSE <<>>

\* "429" in error_msg or "quota" in error_msg.lower()
is_quota_error(outcome) == outcome.has_429 \/ outcome.has_quota

Return(results, exhausted, provider, called) ==
    [returns |-> TRUE, results |-> results, retry_count |-> 0,
     gemini_exhausted |-> exhausted, current_provider |-> provider, called |-> called]

Recurse(retry_count, exhausted, provider, called) ==
    [returns |-> FALSE, results |-> <<>>, retry_count |-> retry_count,
     gemini_exhausted |-> exhausted, current_provider |-> provider, called |-> called]

\* analyze_batch with one retry too many (retry_count <= MAX_RETRIES)
analyze_batch_extra_retry(items, retry_count, exhausted, provider, gemini_key, deepseek_key, outcome) ==
    LET use_deepseek == exhausted \/ ~gemini_key
        now_provider == IF use_deepseek THEN "deepseek" ELSE "gemini"
    IN IF items = <<>> THEN Return(<<>>, exhausted, provider, "none")
       ELSE IF use_deepseek /\ ~deepseek_key THEN Return(<<>>, exhausted, provider, "none")
       ELSE IF outcome.kind = "text"
            THEN Return(parse_batch_response(outcome.text), exhausted, now_provider, now_provider)
       ELSE IF ~use_deepseek /\ is_quota_error(outcome)
            THEN IF retry_count <= MAX_RETRIES
                 THEN Recurse(retry_count + 1, exhausted, now_provider, now_provider)
                 ELSE IF deepseek_key
                      THEN Recurse(0, TRUE, now_provider, now_provider)
                      ELSE Return(<<>>, exhausted, now_provider, now_provider)
       ELSE Return(<<>>, exhausted, now_provider, now_provider)

\* analyze_batch choosing the provider by the credential alone, the
\* exhausted flag ignored
analyze_batch_ignores_exhausted(items, retry_count, exhausted, provider, gemini_key, deepseek_key, outcome) ==
    LET use_deepseek == ~gemini_key
        now_provider == IF use_deepseek THEN "deepseek" ELSE "gemini"
    IN IF items = <<>> THEN Return(<<>>, exhausted, provider, "none")
       ELSE IF use_deepseek /\ ~deepseek_key THEN Return(<<>>, exhausted, provider, "none")
       ELSE IF outcome.kind = "text"
            THEN Return(parse_batch_response(outcome.text), exhausted, now_provider, now_provider)
       ELSE IF ~use_deepseek /\ is_quota_error(outcome)
            THEN IF retry_count < MAX_RETRIES
                 THEN Recurse(retry_count + 1, exhausted, now_provider, now_provider)
                 ELSE IF deepseek_key
                      THEN Recurse(0, TRUE, now_provider, now_provider)
                      ELSE Return(<<>>, exhausted, now_provider, now_provider)
       ELSE Return(<<>>, exhausted, now_provider, now_provider)

\* analyze_batch retrying and failing over on every exception of the primary
analyze_batch_any_error_retries(items, retry_count, exhausted, provider, gemini_key, deepseek_key, outcome) ==
    LET use_deepseek == exhausted \/ ~gemini_key
        now_provider == IF use_deepseek THEN "deepseek" ELSE "gemini"
    IN IF items = <<>> THEN Return(<<>>, exhausted, provider, "none")
       ELSE IF use_deepseek /\ ~deepseek_key THEN Return(<<>>, exhausted, provider, "none")
       ELSE IF outcome.kind = "text"
            THEN Return(parse_batch_response(outcome.text), exhausted, now_provider, now_provider)
       ELSE IF ~use_deepseek
            THEN IF retry_count < MAX_RETRIES
                 THEN Recurse(retry_count + 1, exhausted, now_provider, now_provider)
                 ELSE IF deepseek_key
                      THEN Recurse(0, TRUE, now_provider, now_provider)
                      ELSE Return(<<>>, exhausted, now_provider, now_provider)
       ELSE Return(<<>>, exhausted, now_provider, now_provider)

\* One activation of analyze_batch(items, batch_num, retry_count): it returns
\* results or calls itself again.  outcome is what the provider call of this
\* activation does.
analyze_batch(items, retry_count, exhausted, provider, gemini_key, deepseek_key, outcome) ==
    LET use_deepseek == exhausted \/ ~gemini_key
        now_provider == IF use_deepseek THEN "deepseek" ELSE "gemini"
    IN IF items = <<>> THEN Return(<<>>, exhausted, provider, "none")
       ELSE IF use_deepseek /\ ~deepseek_key THEN Return(<<>>, exhausted, provider, "none")
       ELSE IF outcome.kind = "text"
            THEN Return(parse_batch_response(outcome.text), exhausted, now_provider, now_provider)
       ELSE IF ~use_deepseek /\ is_quota_error(outcome)
            THEN IF retry_count < MAX_RETRIES
                 THEN Recurse(retry_count + 1, exhausted, now_provider, now_provider)
                 ELSE IF deepseek_key
                      THEN Recurse(0, TRUE, now_provider, now_provider)
                      ELSE Return(<<>>, exhausted, now_provider, now_provider)
       ELSE Return(<<>>, exhausted, now_provider, now_provider)

(***************************************************************************)
(* State.                                                                   *)
(***************************************************************************)
VARIABLES
    queue_file,          \* data/pending_queue.json: the list under 'queue'
    checkpoint_file,     \* data/processed_posts.json: the set of processed ids
    clock,               \* logical time of datetime.now()
    op,                  \* the queue API call made last: name, arguments, result
    n_ops,               \* queue API calls made so far (SpecQueue)
    GEMINI_API_KEY,      \* whether the credential is set
    DEEPSEEK_API_KEY,
    FEISHU_WEBHOOK_URL,
    gemini_exhausted,    \* module globals of gemini_analyzer.py
    current_provider,
    ab,                  \* the analyze_batch call in progress, and its call log
    n_calls,             \* analyze_batch calls made so far (SpecAnalyze)
    pc,                  \* where main() stands
    processed_ids,       \* locals of main()
    new_items,
    queue_stats_total,
    items_to_process,
    batch_idx,
    results,
    total_relevant,
    total_sent,
    processed_item_ids,
    relevant_stats,
    sending,             \* relevant_in_batch and, for every card posted so
                         \* far, whether the webhook accepted it
    obs,                 \* what the run did so far, for the properties
    run_no,              \* which invocation of main() this is (SpecRuns)
    hist,                \* how earlier invocations ended (SpecRuns)
    procs,               \* two overlapping queue operations (SpecOverlap)
    whole_seconds        \* the readings of datetime.now(), by clock value, that
                         \* fell on a whole second (SpecOverlap)

queue_vars == <<queue_file, clock, op, n_ops>>
analyzer_vars == <<GEMINI_API_KEY, DEEPSEEK_API_KEY, gemini_exhausted,
                   current_provider, ab, n_calls>>
main_vars == <<checkpoint_file, FEISHU_WEBHOOK_URL, pc, processed_ids, new_items,
               queue_stats_total, items_to_process, batch_idx, results,
               total_relevant, total_sent, processed_item_ids, relevant_stats, obs>>

sys_vars == <<run_no, hist, procs, whole_seconds>>

vars == <<queue_vars, analyzer_vars, main_vars, sys_vars, sending>>

NoOp == [name |-> "none"]

\* no analyze_batch call in progress
IdleCall ==
    [active |-> FALSE, items |-> <<>>, retry_count |-> 0, log |-> <<>>,
     results |-> <<>>, started_exhausted |-> FALSE]

NoObs ==
    [n_classify |-> 0, n_provider |-> 0, n_notify |-> 0, n_summary |-> 0,
     summary_relevant |-> 0, n_checkpoint |-> 0, n_remove |-> 0,
     failed_ids |-> {}, ok_ids |-> {}, all_ok |-> TRUE, relevant_verdicts |-> 0,
     queue0 |-> <<>>, checkpoint0 |-> {}, fetched |-> 0, added |-> 0,
     n_accepted |-> 0, events |-> <<>>]

\* one step of the loop of main() on batch number k, for obs.events
Event(e, k) == [e |-> e, k |-> k]

\* no earlier invocation, no crash so far
NoHist == [crash_pc |-> "none", mid_write |-> FALSE, zombies |-> {}]

\* no queue operation in progress
NoProcs == <<>>

\* nothing relevant in the batch, no card posted
NoSending == [items |-> <<>>, oks |-> <<>>]

SysIdle ==
    /\ run_no = 1
    /\ hist = NoHist
    /\ procs = NoProcs
    /\ whole_seconds = {}

MainIdle ==
    /\ pc = "start"
    /\ processed_ids = {}
    /\ new_items = <<>>
    /\ queue_stats_total = 0
    /\ items_to_process = <<>>
    /\ batch_idx = 0
    /\ results = <<>>
    /\ total_relevant = 0
    /\ total_sent = 0
    /\ processed_item_ids = <<>>
    /\ relevant_stats = [t \in {"post", "comment", "search"} |-> 0]
    /\ sending = NoSending
    /\ obs = NoObs

(***************************************************************************)
(* SpecQueue: the queue API called in any order, starting from an empty     *)
(* store.                                                                   *)
(***************************************************************************)
InitQueue ==
    /\ queue_file = <<>>
    /\ checkpoint_file = {}
    /\ clock = 0
    /\ op = NoOp
    /\ n_ops = 0
    /\ GEMINI_API_KEY = TRUE /\ DEEPSEEK_API_KEY = TRUE /\ FEISHU_WEBHOOK_URL = TRUE
    /\ gemini_exhausted = FALSE /\ current_provider = "gemini"
    /\ ab = IdleCall /\ n_calls = 0
    /\ MainIdle
    /\ SysIdle

\* processed_ids passed to add_to_queue
ProcessedChoices == {{}, {"a", "e"}}
\* ids passed to remove_from_queue
RemoveChoices == SUBSET {"a", "c", "z"}
\* counts passed to get_items_to_process
CountChoices == {0, 2, ITEMS_PER_RUN}

CallAddToQueue ==
    /\ n_ops < MaxOps
    /\ \E items \in CandidateChoices, processed \in ProcessedChoices :
         /\ LET r == add_to_queue(queue_file, items, processed, clock, "ok")
            IN /\ r.now <= MaxClock
               /\ queue_file' = r.file
               /\ clock' = r.now
               /\ op' = [name |-> "add", processed_ids |-> processed,
                         added_count |-> r.added_count]
    /\ n_ops' = n_ops + 1
    /\ UNCHANGED <<analyzer_vars, main_vars>>
    /\ UNCHANGED <<sys_vars, sending>>

CallGetItemsToProcess ==
    /\ n_ops < MaxOps
    /\ \E count \in CountChoices :
         LET r == get_items_to_process(queue_file, count)
         IN /\ queue_file' = r.file
            /\ op' = [name |-> "peek", count |-> count, items |-> r.items]
    /\ n_ops' = n_ops + 1
    /\ UNCHANGED <<clock, analyzer_vars, main_vars>>
    /\ UNCHANGED <<sys_vars, sending>>

CallRemoveFromQueue ==
    /\ n_ops < MaxOps
    /\ \E item_ids \in RemoveChoices :
         LET r == remove_from_queue(queue_file, item_ids, "ok")
         IN /\ queue_file' = r.file
            /\ op' = [name |-> "remove", item_ids |-> item_ids,
                      removed_count |-> r.removed_count]
    /\ n_ops' = n_ops + 1
    /\ UNCHANGED <<clock, analyzer_vars, main_vars>>
    /\ UNCHANGED <<sys_vars, sending>>

NextQueue == CallAddToQueue \/ CallGetItemsToProcess \/ CallRemoveFromQueue

SpecQueue == InitQueue /\ [][NextQueue]_vars

(***************************************************************************)
(* SpecAnalyze: one process making analyze_batch calls one after the other; *)
(* every activation of analyze_batch is one step.                           *)
(***************************************************************************)
\* the store after one enqueue of the filtered feed, and its chunks
SampleQueue == add_to_queue(<<>>, pre_filter(Feed), {}, 0, "ok").file

ChunkChoices ==
    LET chunks == chunk_list(SampleQueue, BATCH_SIZE)
    IN {chunks[k] : k \in DOMAIN chunks} \cup {<<SampleQueue[1]>>}

InitAnalyze ==
    /\ queue_file = <<>>
    /\ checkpoint_file = {}
    /\ clock = 0
    /\ op = NoOp
    /\ n_ops = 0
    /\ GEMINI_API_KEY \in BOOLEAN
    /\ DEEPSEEK_API_KEY \in BOOLEAN
    /\ FEISHU_WEBHOOK_URL = TRUE
    /\ gemini_exhausted = FALSE /\ current_provider = "gemini"
    /\ ab = IdleCall /\ n_calls = 0
    /\ MainIdle
    /\ SysIdle

\* the frame of analyze_batch(items, batch_num) as it is entered
NewCall(items) ==
    [active |-> TRUE, items |-> items, retry_count |-> 0, log |-> <<>>,
     results |-> <<>>, started_exhausted |-> gemini_exhausted]

\* what the call log keeps of a provider call
LogEntry(called, outcome) ==
    [provider |-> called,
     kind |-> IF outcome.kind = "raise"
              THEN (IF is_quota_error(outcome) THEN "quota" ELSE "error")
              ELSE outcome.kind]

CallAnalyzeBatch ==
    /\ ~ab.active
    /\ n_calls < MaxCalls
    /\ \E items \in ChunkChoices : ab' = NewCall(items)
    /\ n_calls' = n_calls + 1
    /\ UNCHANGED <<queue_vars, main_vars, GEMINI_API_KEY, DEEPSEEK_API_KEY,
                   gemini_exhausted, current_provider>>
    /\ UNCHANGED <<sys_vars, sending>>

AnalyzeBatchActivation ==
    /\ ab.active
    /\ \E outcome \in Outcomes(Len(ab.items)) :
         LET r == analyze_batch(ab.items, ab.retry_count, gemini_exhausted,
                                current_provider, GEMINI_API_KEY, DEEPSEEK_API_KEY,
                                outcome)
         IN /\ gemini_exhausted' = r.gemini_exhausted
            /\ current_provider' = r.current_provider
            /\ ab' = [ab EXCEPT !.active = ~r.returns,
                                !.retry_count = r.retry_count,
                                !.results = r.results,
                                !.log = IF r.called = "none" THEN @
                                        ELSE Append(@, LogEntry(r.called, outcome))]
    /\ UNCHANGED <<queue_vars, main_vars, GEMINI_API_KEY, DEEPSEEK_API_KEY, n_calls>>
    /\ UNCHANGED <<sys_vars, sending>>

NextAnalyze == CallAnalyzeBatch \/ AnalyzeBatchActivation

SpecAnalyze == InitAnalyze /\ [][NextAnalyze]_vars

(***************************************************************************)
(* SpecFilter: pre_filter applied to one list of fetched items.  new_items  *)
(* is the list, op the call and its result.                                 *)
(***************************************************************************)
FilterPool == {item_a, item_c, item_d, item_j, item_o, item_f, item_g, item_u}

FilterInputs ==
    UNION {[1..n -> FilterPool] : n \in 0..MaxItems}

InitFilter ==
    /\ queue_file = <<>>
    /\ checkpoint_file = {}
    /\ clock = 0
    /\ op = NoOp
    /\ n_ops = 0
    /\ GEMINI_API_KEY = TRUE
    /\ DEEPSEEK_API_KEY = TRUE
    /\ FEISHU_WEBHOOK_URL = TRUE
    /\ gemini_exhausted = FALSE /\ current_provider = "gemini"
    /\ ab = IdleCall /\ n_calls = 0
    /\ pc = "start"
    /\ processed_ids = {}
    /\ new_items \in FilterInputs
    /\ queue_stats_total = 0
    /\ items_to_process = <<>>
    /\ batch_idx = 0
    /\ results = <<>>
    /\ total_relevant = 0
    /\ total_sent = 0
    /\ processed_item_ids = <<>>
    /\ relevant_stats = [t \in {"post", "comment", "search"} |-> 0]
    /\ sending = NoSending
    /\ obs = NoObs
    /\ SysIdle

CallPreFilter ==
    /\ op = NoOp
    /\ op' = [name |-> "pre_filter", items |-> new_items,
              filtered |-> pre_filter(new_items)]
    /\ UNCHANGED <<queue_file, clock, n_ops, analyzer_vars, main_vars>>
    /\ UNCHANGED <<sys_vars, sending>>

NextFilter == CallPreFilter

SpecFilter == InitFilter /\ [][NextFilter]_vars

(***************************************************************************)
(* Spec: one run of main(), from the stores as earlier runs left them.      *)
(***************************************************************************)
InitLists == {<<>>, SubSeq(Feed, 4, 5), SubSeq(Feed, 1, 6), Feed}

\* a store holds what one enqueue of a filtered fetch put there
InitQueues == {add_to_queue(<<>>, pre_filter(l), {}, 0, "ok").file : l \in InitLists}

InitCheckpoints == {{}, {"a"}, {"d", "z"}}

Init ==
    /\ queue_file \in InitQueues
    /\ clock = Len(queue_file)
    /\ checkpoint_file \in InitCheckpoints
    /\ op = NoOp
    /\ n_ops = 0
    /\ GEMINI_API_KEY \in BOOLEAN
    /\ DEEPSEEK_API_KEY \in BOOLEAN
    /\ FEISHU_WEBHOOK_URL \in BOOLEAN
    /\ gemini_exhausted = FALSE /\ current_provider = "gemini"
    /\ ab = IdleCall /\ n_calls = 0
    /\ MainIdle
    /\ SysIdle

batches == chunk_list(items_to_process, BATCH_SIZE)
total_batches == Len(batches)
batch_items == batches[batch_idx + 1]

\* Startup with the environment check reduced to the classifier credential.
StartupChecksGeminiOnly ==
    /\ pc = "start"
    /\ IF ~GEMINI_API_KEY
       THEN /\ pc' = "exit1"
            /\ UNCHANGED <<processed_ids, obs>>
       ELSE /\ pc' = "fetch"
            /\ processed_ids' = load_processed_posts(checkpoint_file)
            /\ obs' = [NoObs EXCEPT !.queue0 = queue_file,
                                    !.checkpoint0 = checkpoint_file]
    /\ UNCHANGED <<queue_vars, analyzer_vars, checkpoint_file, FEISHU_WEBHOOK_URL,
                   new_items, queue_stats_total, items_to_process, batch_idx,
                   results, total_relevant, total_sent, processed_item_ids,
                   relevant_stats>>
    /\ UNCHANGED <<sys_vars, sending>>

\* main.py 46-56: the environment check and load_processed_posts()
Startup ==
    /\ pc = "start"
    /\ IF ~GEMINI_API_KEY \/ ~FEISHU_WEBHOOK_URL
       THEN /\ pc' = "exit1"
            /\ UNCHANGED <<processed_ids, obs>>
       ELSE /\ pc' = "fetch"
            /\ processed_ids' = load_processed_posts(checkpoint_file)
            /\ obs' = [NoObs EXCEPT !.queue0 = queue_file,
                                    !.checkpoint0 = checkpoint_file]
    /\ UNCHANGED <<queue_vars, analyzer_vars, checkpoint_file, FEISHU_WEBHOOK_URL,
                   new_items, queue_stats_total, items_to_process, batch_idx,
                   results, total_relevant, total_sent, processed_item_ids,
                   relevant_stats>>
    /\ UNCHANGED <<sys_vars, sending>>

\* main.py 60: new_items = fetch_all_new_posts()
Fetch ==
    /\ pc = "fetch"
    /\ \E items \in FetchChoices :
         /\ clock + Len(pre_filter(items)) <= MaxClock
         /\ new_items' = items
    /\ pc' = "enqueue"
    /\ UNCHANGED <<queue_vars, analyzer_vars, checkpoint_file, FEISHU_WEBHOOK_URL,
                   processed_ids, queue_stats_total, items_to_process, batch_idx,
                   results, total_relevant, total_sent, processed_item_ids,
                   relevant_stats, obs>>
    /\ UNCHANGED <<sys_vars, sending>>

\* main.py 62-82: pre_filter, add_to_queue, get_queue_stats
Enqueue ==
    /\ pc = "enqueue"
    /\ LET filtered_items == pre_filter(new_items)
           r == IF new_items # <<>> /\ filtered_items # <<>>
                THEN add_to_queue(queue_file, filtered_items, processed_ids, clock, "ok")
                ELSE [file |-> queue_file, added_count |-> 0, now |-> clock]
       IN /\ queue_file' = r.file
          /\ clock' = r.now
          /\ queue_stats_total' = get_queue_stats_total(r.file)
          /\ obs' = [obs EXCEPT !.fetched = Len(new_items),
                                 !.added = r.added_count]
    /\ pc' = "dequeue"
    /\ UNCHANGED <<op, n_ops, analyzer_vars, checkpoint_file, FEISHU_WEBHOOK_URL,
                   processed_ids, new_items, items_to_process, batch_idx, results,
                   total_relevant, total_sent, processed_item_ids, relevant_stats>>
    /\ UNCHANGED <<sys_vars, sending>>

\* the dequeue without the return on an empty slice: the loop over no batches
\* falls through to the removal
DequeueNoReturn ==
    /\ pc = "dequeue"
    /\ LET r == get_items_to_process(queue_file, ITEMS_PER_RUN)
       IN /\ items_to_process' = r.items
          /\ queue_file' = r.file
          /\ pc' = IF r.items = <<>> THEN "ack" ELSE "classify"
    /\ new_items' = <<>>
    /\ UNCHANGED <<clock, op, n_ops, analyzer_vars, checkpoint_file,
                   FEISHU_WEBHOOK_URL, processed_ids, queue_stats_total, batch_idx,
                   results, total_relevant, total_sent, processed_item_ids,
                   relevant_stats, obs>>
    /\ UNCHANGED <<sys_vars, sending>>

\* main.py 88-108: get_items_to_process(ITEMS_PER_RUN); nothing to do ends the run
\* (new_items is not read after line 64, so the local is dropped here)
Dequeue ==
    /\ pc = "dequeue"
    /\ LET r == get_items_to_process(queue_file, ITEMS_PER_RUN)
       IN /\ items_to_process' = r.items
          /\ queue_file' = r.file
          /\ pc' = IF r.items = <<>> THEN "done" ELSE "classify"
    /\ new_items' = <<>>
    /\ UNCHANGED <<clock, op, n_ops, analyzer_vars, checkpoint_file,
                   FEISHU_WEBHOOK_URL, processed_ids, queue_stats_total, batch_idx,
                   results, total_relevant, total_sent, processed_item_ids,
                   relevant_stats, obs>>
    /\ UNCHANGED <<sys_vars, sending>>

\* main.py 110-114: the next batch is handed to analyze_batch
Classify ==
    /\ pc = "classify"
    /\ ab' = NewCall(batch_items)
    /\ obs' = [obs EXCEPT !.n_classify = @ + 1,
                           !.events = Append(@, Event("classify", batch_idx + 1))]
    /\ pc' = "analyze"
    /\ UNCHANGED <<queue_vars, checkpoint_file, FEISHU_WEBHOOK_URL, GEMINI_API_KEY,
                   DEEPSEEK_API_KEY, gemini_exhausted, current_provider, n_calls,
                   processed_ids, new_items, queue_stats_total, items_to_process,
                   batch_idx, results, total_relevant, total_sent,
                   processed_item_ids, relevant_stats>>
    /\ UNCHANGED <<sys_vars, sending>>

\* the verdicts answer every item of the chunk, in order
WellFormed(verdicts, n) ==
    /\ Len(verdicts) = n
    /\ \A i \in 1..n : /\ verdicts[i].is_dict /\ verdicts[i].has_index
                       /\ verdicts[i].index_type = "int"
                       /\ verdicts[i].index = i - 1
                       /\ verdicts[i].relevant_is_bool

\* gemini_analyzer.py 171-233: one activation of analyze_batch; when it
\* returns, main has the results
Analyze ==
    /\ pc = "analyze"
    /\ ab.active
    /\ \E outcome \in Outcomes(Len(ab.items)) :
         LET r == analyze_batch(ab.items, ab.retry_count, gemini_exhausted,
                                current_provider, GEMINI_API_KEY, DEEPSEEK_API_KEY,
                                outcome)
             called == IF r.called = "none" THEN 0 ELSE 1
             chunk_ids == {ab.items[k].id : k \in DOMAIN ab.items}
         IN /\ gemini_exhausted' = r.gemini_exhausted
            /\ current_provider' = r.current_provider
            /\ IF r.returns
               THEN /\ ab' = IdleCall
                    /\ results' = r.results
                    /\ pc' = "notify"
                    /\ obs' = [obs EXCEPT
                          !.n_provider = @ + called,
                          !.failed_ids = IF r.results = <<>> THEN @ \cup chunk_ids ELSE @,
                          !.ok_ids = IF r.results # <<>> THEN @ \cup chunk_ids ELSE @,
                          !.all_ok = @ /\ WellFormed(r.results, Len(ab.items)),
                          !.relevant_verdicts = @ + Cardinality(
                               {k \in DOMAIN r.results : r.results[k].is_relevant})]
               ELSE /\ ab' = [ab EXCEPT !.retry_count = r.retry_count]
                    /\ obs' = [obs EXCEPT !.n_provider = @ + called]
                    /\ UNCHANGED <<results, pc>>
    /\ UNCHANGED <<queue_vars, checkpoint_file, FEISHU_WEBHOOK_URL, GEMINI_API_KEY,
                   DEEPSEEK_API_KEY, n_calls, processed_ids, new_items,
                   queue_stats_total, items_to_process, batch_idx, total_relevant,
                   total_sent, processed_item_ids, relevant_stats>>
    /\ UNCHANGED <<sys_vars, sending>>

\* main.py 116-140: the loop over the verdicts builds relevant_in_batch and
\* counts the types; with something relevant send_batch_to_feishu is entered
\* (141), else the batch goes on to the recording of its ids (145-146).  A
\* verdict the loop cannot handle raises out of main(): the process ends
\* with a traceback, the verdicts before it counted, nothing of the chunk
\* sent or recorded.
Notify ==
    /\ pc = "notify"
    /\ IF results_raise(results, batch_items)
       THEN LET relevant == relevant_in_batch(
                              handled_before_raise(results, batch_items), batch_items)
            IN /\ pc' = "crashed"
               /\ sending' = [items |-> relevant, oks |-> <<>>]
               /\ relevant_stats' = count_types(relevant_stats, relevant)
               /\ UNCHANGED obs
       ELSE LET relevant == relevant_in_batch(results, batch_items)
            IN /\ sending' = [items |-> relevant, oks |-> <<>>]
               /\ relevant_stats' = count_types(relevant_stats, relevant)
               /\ IF relevant # <<>>
                  THEN /\ pc' = "send"
                       /\ obs' = [obs EXCEPT
                             !.events = Append(@, Event("notify", batch_idx + 1))]
                  ELSE /\ pc' = "record"
                       /\ UNCHANGED obs
    /\ results' = <<>>
    /\ UNCHANGED <<queue_vars, analyzer_vars, checkpoint_file, FEISHU_WEBHOOK_URL,
                   processed_ids, new_items, queue_stats_total, items_to_process,
                   batch_idx, total_relevant, total_sent, processed_item_ids>>
    /\ UNCHANGED sys_vars

\* feishu_notifier.py 242-244, 198-229: one pass of the loop of
\* send_batch_to_feishu posts the next card; send_to_feishu answers whether
\* the webhook accepted it and raises nothing
SendCard ==
    /\ pc = "send"
    /\ Len(sending.oks) < Len(sending.items)
    /\ \E ok \in BOOLEAN :
         /\ sending' = [sending EXCEPT !.oks = Append(@, ok)]
         /\ obs' = [obs EXCEPT !.n_notify = @ + 1,
                                !.n_accepted = @ + (IF ok THEN 1 ELSE 0)]
    /\ UNCHANGED <<queue_vars, analyzer_vars, checkpoint_file, FEISHU_WEBHOOK_URL,
                   pc, processed_ids, new_items, queue_stats_total,
                   items_to_process, batch_idx, results, total_relevant,
                   total_sent, processed_item_ids, relevant_stats>>
    /\ UNCHANGED sys_vars

\* feishu_notifier.py 246-248, main.py 141-142: send_batch_to_feishu returns
\* the number of accepted cards and main() adds it to total_sent
NotifySent ==
    /\ pc = "send"
    /\ Len(sending.oks) = Len(sending.items)
    /\ total_sent' = total_sent + send_batch_to_feishu(sending.items, sending.oks)
    /\ pc' = "count"
    /\ UNCHANGED <<queue_vars, analyzer_vars, checkpoint_file, FEISHU_WEBHOOK_URL,
                   processed_ids, new_items, queue_stats_total, items_to_process,
                   batch_idx, results, total_relevant, processed_item_ids,
                   relevant_stats, sending, obs>>
    /\ UNCHANGED sys_vars

\* main.py 143-144: total_relevant += len(relevant_in_batch)
NotifyRelevant ==
    /\ pc = "count"
    /\ total_relevant' = total_relevant + Len(sending.items)
    /\ pc' = "record"
    /\ UNCHANGED <<queue_vars, analyzer_vars, checkpoint_file, FEISHU_WEBHOOK_URL,
                   processed_ids, new_items, queue_stats_total, items_to_process,
                   batch_idx, results, total_sent, processed_item_ids,
                   relevant_stats, sending, obs>>
    /\ UNCHANGED sys_vars

\* a delay after every batch, the last one included
delay_after_every_batch(batch_num, n_batches) == TRUE

\* main.py 159: if batch_num < total_batches (then time.sleep(REQUEST_DELAY))
delay_after(batch_num, n_batches) == batch_num < n_batches

\* main.py 148-153: every id of the batch is added to processed_item_ids and
\* to processed_ids
Record ==
    /\ pc = "record"
    /\ LET ids == SelectSeq(ids_of(batch_items), LAMBDA id : id # "")
       IN /\ processed_item_ids' = processed_item_ids \o ids
          /\ processed_ids' = processed_ids \cup {ids[k] : k \in DOMAIN ids}
    /\ obs' = [obs EXCEPT !.events = Append(@, Event("record", batch_idx + 1))]
    /\ pc' = "checkpoint"
    /\ UNCHANGED <<queue_vars, analyzer_vars, checkpoint_file, FEISHU_WEBHOOK_URL,
                   new_items, queue_stats_total, items_to_process, batch_idx,
                   results, total_relevant, total_sent, relevant_stats, sending>>
    /\ UNCHANGED sys_vars

\* main.py 155-156: save_processed_posts(processed_ids)
Checkpoint ==
    /\ pc = "checkpoint"
    /\ checkpoint_file' \in save_processed_posts(processed_ids)
    /\ obs' = [obs EXCEPT
          !.n_checkpoint = @ + 1,
          !.events = Append(@, Event("persist", batch_idx + 1))]
    /\ pc' = "delay"
    /\ UNCHANGED <<queue_vars, analyzer_vars, FEISHU_WEBHOOK_URL, processed_ids,
                   new_items, queue_stats_total, items_to_process, batch_idx,
                   results, total_relevant, total_sent, processed_item_ids,
                   relevant_stats, sending>>
    /\ UNCHANGED sys_vars

\* main.py 158-162, 110: the delay when another batch follows, then the next
\* pass of the loop or its end
Delay ==
    /\ pc = "delay"
    /\ obs' = [obs EXCEPT
          !.events = @ \o IF delay_after(batch_idx + 1, total_batches)
                          THEN <<Event("sleep", batch_idx + 1)>> ELSE <<>>]
    /\ IF batch_idx + 1 < total_batches
       THEN /\ batch_idx' = batch_idx + 1
            /\ pc' = "classify"
       ELSE /\ pc' = "ack"
            /\ UNCHANGED batch_idx
    /\ UNCHANGED <<queue_vars, analyzer_vars, checkpoint_file, FEISHU_WEBHOOK_URL,
                   processed_ids, new_items, queue_stats_total, items_to_process,
                   results, total_relevant, total_sent, processed_item_ids,
                   relevant_stats, sending>>
    /\ UNCHANGED sys_vars

\* a removal of the ids of the last batch only
AckLastBatchOnly ==
    /\ pc = "ack"
    /\ LET ids == ids_of(batch_items)
           r == remove_from_queue(queue_file, {ids[k] : k \in DOMAIN ids}, "ok")
       IN queue_file' = r.file
    /\ obs' = [obs EXCEPT !.n_remove = @ + 1]
    /\ pc' = "summarize"
    /\ UNCHANGED <<clock, op, n_ops, analyzer_vars, checkpoint_file,
                   FEISHU_WEBHOOK_URL, processed_ids, new_items, queue_stats_total,
                   items_to_process, batch_idx, results, total_relevant, total_sent,
                   processed_item_ids, relevant_stats>>
    /\ UNCHANGED <<sys_vars, sending>>

\* main.py 166: remove_from_queue(processed_item_ids)
Ack ==
    /\ pc = "ack"
    /\ LET r == remove_from_queue(queue_file,
                    {processed_item_ids[k] : k \in DOMAIN processed_item_ids}, "ok")
       IN queue_file' = r.file
    /\ obs' = [obs EXCEPT !.n_remove = @ + 1]
    /\ pc' = "summarize"
    /\ UNCHANGED <<clock, op, n_ops, analyzer_vars, checkpoint_file,
                   FEISHU_WEBHOOK_URL, processed_ids, new_items, queue_stats_total,
                   items_to_process, batch_idx, results, total_relevant, total_sent,
                   processed_item_ids, relevant_stats>>
    /\ UNCHANGED <<sys_vars, sending>>

\* main.py 168-179: the summary, posted when something relevant was found
\* (feishu_notifier.py 251-316: one blocking post, every failure swallowed)
Summarize ==
    /\ pc = "summarize"
    /\ IF total_relevant > 0 /\ send_summary_to_feishu(FEISHU_WEBHOOK_URL, total_relevant)
       THEN obs' = [obs EXCEPT !.n_summary = @ + 1,
                               !.summary_relevant = total_relevant]
       ELSE UNCHANGED obs
    /\ pc' = "finish"
    /\ UNCHANGED <<queue_vars, analyzer_vars, checkpoint_file, FEISHU_WEBHOOK_URL,
                   processed_ids, new_items, queue_stats_total, items_to_process,
                   batch_idx, results, total_relevant, total_sent,
                   processed_item_ids, relevant_stats>>
    /\ UNCHANGED <<sys_vars, sending>>

\* main.py 181-191: get_queue_stats() reads the queue file for the closing
\* report, the report is printed and main() returns
Finish ==
    /\ pc = "finish"
    /\ pc' = "done"
    /\ UNCHANGED <<queue_vars, analyzer_vars, checkpoint_file, FEISHU_WEBHOOK_URL,
                   processed_ids, new_items, queue_stats_total, items_to_process,
                   batch_idx, results, total_relevant, total_sent,
                   processed_item_ids, relevant_stats, obs>>
    /\ UNCHANGED <<sys_vars, sending>>

Next ==
    \/ Startup \/ Fetch \/ Enqueue \/ Dequeue \/ Classify \/ Analyze
    \/ Notify \/ SendCard \/ NotifySent \/ NotifyRelevant
    \/ Record \/ Checkpoint \/ Delay \/ Ack \/ Summarize \/ Finish

Spec == Init /\ [][Next]_vars

(***************************************************************************)
(* SpecRuns: invocations of main() one after the other, each a process of   *)
(* its own, any of which can be killed between two steps, inside            *)
(* add_to_queue between two readings of the clock, or while it writes one   *)
(* of the two files.  The steps are those of Next: one for every call that  *)
(* reads or writes a file, posts to the webhook, calls a provider or        *)
(* sleeps, and one for each of the two additions to the totals.             *)
(***************************************************************************)
\* the checkpoint an earlier run left: with or without the id of the post d,
\* which is not queued
RunsCheckpoints == {{"d", "z"}, {"z"}}

InitRuns ==
    /\ queue_file = add_to_queue(<<>>, pre_filter(SubSeq(Feed, 3, 5)), {}, 0, "ok").file
    /\ clock = Len(queue_file)
    /\ checkpoint_file \in RunsCheckpoints
    /\ op = NoOp
    /\ n_ops = 0
    /\ GEMINI_API_KEY = TRUE
    /\ DEEPSEEK_API_KEY = TRUE
    /\ FEISHU_WEBHOOK_URL = TRUE
    /\ gemini_exhausted = FALSE /\ current_provider = "gemini"
    /\ ab = IdleCall /\ n_calls = 0
    /\ MainIdle
    /\ SysIdle

\* where a process that is killed can stand
Running ==
    {"fetch", "enqueue", "dequeue", "classify", "analyze", "notify", "send",
     "count", "record", "checkpoint", "delay", "ack", "summarize", "finish"}

\* the checkpoint file after a save that was cut short: the file was opened
\* for writing and holds no complete list; it reads as no ids
interrupted_save_processed_posts == {}

\* the step at pc writes the queue file
writes_queue_file ==
    \/ pc = "enqueue" /\ new_items # <<>> /\ pre_filter(new_items) # <<>>
    \/ pc = "ack"

\* the ids this run recorded and saved whose entries are still queued
zombie_ids ==
    {id \in Range(processed_item_ids) :
        /\ id \in checkpoint_file
        /\ \E k \in DOMAIN queue_file : queue_file[k].id = id}

\* the readings of the clock add_to_queue has made when the process is killed
\* inside it: none, or one for each entry added so far (queue_manager.py 94)
clock_when_killed ==
    IF pc = "enqueue" /\ writes_queue_file
    THEN clock..add_to_queue(queue_file, pre_filter(new_items), processed_ids,
                             clock, "ok").now
    ELSE {clock}

\* The process is killed (SIGKILL, power loss): between two steps, that is
\* before a provider call, before or after any one card, between the two
\* additions to the totals, before or after the recording of the ids, the
\* save of the checkpoint and the delay, before or after the post of the
\* summary; inside add_to_queue after any number of its clock readings; or
\* inside the write of a file, which leaves the file truncated.  The locals stay as they were for the properties to read;
\* the next process does not see them.
Crash ==
    /\ pc \in Running
    /\ pc' = "crashed"
    /\ \E mid_write \in BOOLEAN :
         /\ mid_write => (pc = "checkpoint" \/ writes_queue_file)
         /\ checkpoint_file' = IF mid_write /\ pc = "checkpoint"
                                THEN interrupted_save_processed_posts
                                ELSE checkpoint_file
         /\ queue_file' = IF mid_write /\ writes_queue_file
                           THEN save_queue(queue_file, queue_file, "dump_fails")
                           ELSE queue_file
         /\ \E now \in clock_when_killed :
              /\ (mid_write /\ pc = "enqueue") =>
                    \A other \in clock_when_killed : other <= now
              /\ clock' = now
         /\ hist' = [hist EXCEPT !.crash_pc = pc, !.mid_write = mid_write]
    /\ UNCHANGED <<op, n_ops, analyzer_vars, FEISHU_WEBHOOK_URL,
                   processed_ids, new_items, queue_stats_total, items_to_process,
                   batch_idx, results, total_relevant, total_sent,
                   processed_item_ids, relevant_stats, sending, obs, run_no,
                   procs, whole_seconds>>

\* The scheduler starts main() again in a new process: the locals and the
\* module globals start afresh, the two files are as the last process left
\* them.
NextRun ==
    /\ pc \in {"done", "exit1", "crashed"}
    /\ run_no < MaxRuns
    /\ run_no' = run_no + 1
    /\ hist' = [crash_pc |-> "none", mid_write |-> FALSE,
                zombies |-> IF pc = "crashed" THEN hist.zombies \cup zombie_ids
                            ELSE hist.zombies]
    /\ gemini_exhausted' = FALSE /\ current_provider' = "gemini"
    /\ ab' = IdleCall
    /\ pc' = "start"
    /\ processed_ids' = {} /\ new_items' = <<>> /\ queue_stats_total' = 0
    /\ items_to_process' = <<>> /\ batch_idx' = 0 /\ results' = <<>>
    /\ total_relevant' = 0 /\ total_sent' = 0 /\ processed_item_ids' = <<>>
    /\ relevant_stats' = [t \in {"post", "comment", "search"} |-> 0]
    /\ sending' = NoSending
    /\ obs' = NoObs
    /\ UNCHANGED <<queue_vars, checkpoint_file, GEMINI_API_KEY, DEEPSEEK_API_KEY,
                   FEISHU_WEBHOOK_URL, n_calls, procs, whole_seconds>>

NextRuns == Next \/ Crash \/ NextRun

SpecRuns == InitRuns /\ [][NextRuns]_vars

(***************************************************************************)
(* SpecOverlap: two runs of main() at the same time, each inside one call   *)
(* of add_to_queue or remove_from_queue.  A call reads the whole file       *)
(* (load_queue), works out its list on its copy, reading the clock once for *)
(* every entry it adds, opens the file for writing, which empties it, and   *)
(* writes its list (json.dump and the close of the file); the other process *)
(* can run between any two of these.                                        *)
(* The files stay below the buffer of Python's file object, so the list     *)
(* reaches the file in one write.                                           *)
(***************************************************************************)
Procs == {1, 2}

IdleProc ==
    [pc |-> "idle", op |-> "none", items |-> <<>>, item_ids |-> {},
     loaded |-> <<>>, queue |-> <<>>, todo |-> <<>>, result |-> <<>>,
     last_updated_whole |-> FALSE, on_disk |-> 0, done_ids |-> {},
     overlapped |-> FALSE]

\* candidate lists of the enqueues and id lists of the removals; no id is
\* both added and removed
OverlapAdds == {<<item_a>>, <<item_b>>, <<item_a, item_c>>}
OverlapRemoves == {{"d"}, {"e"}, {"d", "e"}}

\* io.DEFAULT_BUFFER_SIZE: a document of up to this many characters is
\* handed to the file in one write when the file is closed
DEFAULT_BUFFER_SIZE == 8192

\* len() of the strings the entries hold as id, type and link
str_len(s) ==
    CASE s \in {"a", "b", "c", "d", "e"} -> 1
      [] s \in {"la", "lb", "lc", "ld"} -> 2
      [] s = "post" -> 4
      [] s = "search" -> 6
      [] s = "comment" -> 7

\* len(datetime.now().isoformat()): YYYY-MM-DDTHH:MM:SS.ffffff, and without
\* the fraction when the microsecond is 0
isoformat_len(whole) == IF whole THEN 19 ELSE 26

\* characters of one entry as json.dump(..., indent=2) writes it: the ten
\* keys with their indentation and punctuation, the values of subreddit,
\* author and search_keyword empty, a score of one digit, the comma or line
\* break before the entry; then the values of id, type, title, content,
\* link and added_at
entry_chars(e, whole) ==
    225 + str_len(e.id) + str_len(e.type) + Len(e.title) + Len(e.content)
        + str_len(e.link) + isoformat_len(e.added_at \in whole)

RECURSIVE entries_chars(_, _)
entries_chars(queue, whole) ==
    IF queue = <<>> THEN 0
    ELSE entry_chars(Head(queue), whole) + entries_chars(Tail(queue), whole)

\* length of the file save_queue(queue) writes: {"queue": [...],
\* "last_updated": "..."}; a list that is not empty closes on a line of its own
dump_chars(queue, whole, last_updated_whole) ==
    39 + isoformat_len(last_updated_whole)
       + (IF queue = <<>> THEN 0 ELSE 2) + entries_chars(queue, whole)

InitOverlap ==
    /\ queue_file = add_to_queue(<<>>, <<item_d, item_e>>, {}, 0, "ok").file
    /\ clock = Len(queue_file)
    /\ checkpoint_file = {}
    /\ op = NoOp
    /\ n_ops = 0
    /\ GEMINI_API_KEY = TRUE
    /\ DEEPSEEK_API_KEY = TRUE
    /\ FEISHU_WEBHOOK_URL = TRUE
    /\ gemini_exhausted = FALSE /\ current_provider = "gemini"
    /\ ab = IdleCall /\ n_calls = 0
    /\ MainIdle
    /\ run_no = 1
    /\ hist = NoHist
    /\ procs = [p \in Procs |-> IdleProc]
    /\ whole_seconds \in SUBSET (1..Len(queue_file))

\* the other process has read the file and not yet finished writing it
OtherInCall(p) ==
    \E o \in Procs \ {p} : procs[o].pc \in {"loaded", "ready", "opened"}

\* queue_manager.py 69: add_to_queue is entered and reads the file; a file
\* the other process has opened for writing and not yet written reads as []
BeginAdd(p) ==
    /\ procs[p].pc = "idle"
    /\ \E items \in OverlapAdds :
         procs' = [procs EXCEPT ![p] =
                      [IdleProc EXCEPT !.pc = "loaded", !.op = "add",
                           !.items = items, !.todo = items,
                           !.loaded = load_queue(queue_file),
                           !.queue = load_queue(queue_file),
                           !.overlapped = OtherInCall(p)]]
    /\ UNCHANGED <<queue_vars, analyzer_vars, main_vars, run_no, hist,
                   whole_seconds, sending>>

\* queue_manager.py 131: remove_from_queue is entered and reads the file
BeginRemove(p) ==
    /\ procs[p].pc = "idle"
    /\ \E item_ids \in OverlapRemoves :
         procs' = [procs EXCEPT ![p] =
                      [IdleProc EXCEPT !.pc = "loaded", !.op = "remove",
                           !.item_ids = item_ids,
                           !.loaded = load_queue(queue_file),
                           !.queue = load_queue(queue_file),
                           !.overlapped = OtherInCall(p)]]
    /\ UNCHANGED <<queue_vars, analyzer_vars, main_vars, run_no, hist,
                   whole_seconds, sending>>

\* queue_manager.py 73-97: one pass of the loop of add_to_queue, on the next
\* candidate: it is skipped when its id is in the list that was read, and
\* otherwise appended with the reading of datetime.now(), which can fall on a
\* whole second
AddEntry(p) ==
    /\ procs[p].pc = "loaded"
    /\ procs[p].op = "add"
    /\ procs[p].todo # <<>>
    /\ LET me == procs[p]
           existing_ids == {me.loaded[k].id : k \in DOMAIN me.loaded}
           r == add_loop(me.queue, <<Head(me.todo)>>, existing_ids, {}, 0, clock)
       IN /\ r.now <= MaxClock
          /\ clock' = r.now
          /\ \E whole \in SUBSET ((clock + 1)..r.now) :
                whole_seconds' = whole_seconds \cup whole
          /\ procs' = [procs EXCEPT ![p] =
                [me EXCEPT !.queue = r.queue, !.todo = Tail(me.todo)]]
    /\ UNCHANGED <<queue_file, op, n_ops, analyzer_vars, main_vars, run_no, hist,
                   sending>>

\* queue_manager.py 100, 132-135: the list the call will write: the sorted
\* list of add_to_queue after its loop, the filtered list of
\* remove_from_queue
WorkOut(p) ==
    /\ procs[p].pc = "loaded"
    /\ procs[p].todo = <<>>
    /\ LET me == procs[p]
           new_queue == IF me.op = "add" THEN sort_by_score(me.queue)
                        ELSE remove_from_queue(me.queue, me.item_ids, "ok").file
           had == {me.loaded[k].id : k \in DOMAIN me.loaded}
           has == {new_queue[k].id : k \in DOMAIN new_queue}
       IN procs' = [procs EXCEPT ![p] =
                [me EXCEPT !.pc = "ready", !.result = new_queue,
                     !.done_ids = IF me.op = "add" THEN has \ had
                                  ELSE had \ has]]
    /\ UNCHANGED <<queue_vars, analyzer_vars, main_vars, run_no, hist,
                   whole_seconds, sending>>

\* save_queue, queue_manager.py 46-52: last_updated is read off the clock,
\* and open(QUEUE_FILE, 'w') empties the file.  on_disk is the length of the
\* file under the open descriptor: what the other process has written since.
OpenQueueFile(p) ==
    /\ procs[p].pc = "ready"
    /\ queue_file' = save_queue(queue_file, procs[p].result, "dump_fails")
    /\ \E whole \in BOOLEAN :
         procs' = [o \in Procs |->
            IF o = p
            THEN [procs[p] EXCEPT !.pc = "opened", !.on_disk = 0,
                                  !.last_updated_whole = whole]
            ELSE IF procs[o].pc = "opened"
                 THEN [procs[o] EXCEPT !.on_disk = 0]
                 ELSE procs[o]]
    /\ UNCHANGED <<clock, op, n_ops, analyzer_vars, main_vars, run_no, hist,
                   whole_seconds, sending>>

\* queue_manager.py 53, 102-103, 137-141: json.dump and the close of the file
\* write the list from the start of the file, and the call returns.  Where
\* the other process has written a longer file since this one opened it, the
\* end of that file stays behind the list and the file is no JSON document.
FinishCall(p) ==
    /\ procs[p].pc = "opened"
    /\ LET me == procs[p]
           n == dump_chars(me.result, whole_seconds, me.last_updated_whole)
           after == IF n >= me.on_disk THEN n ELSE me.on_disk
       IN /\ n <= DEFAULT_BUFFER_SIZE
          /\ queue_file' = IF n >= me.on_disk THEN me.result
                           ELSE save_queue(queue_file, me.result, "dump_fails")
          /\ procs' = [o \in Procs |->
                IF o = p THEN [me EXCEPT !.pc = "saved"]
                ELSE IF procs[o].pc = "opened"
                     THEN [procs[o] EXCEPT !.on_disk = after]
                     ELSE procs[o]]
    /\ UNCHANGED <<clock, op, n_ops, analyzer_vars, main_vars, run_no, hist,
                   whole_seconds, sending>>

NextOverlap ==
    \E p \in Procs :
        \/ BeginAdd(p) \/ BeginRemove(p) \/ AddEntry(p) \/ WorkOut(p)
        \/ OpenQueueFile(p) \/ FinishCall(p)

SpecOverlap == InitOverlap /\ [][NextOverlap]_vars

(***************************************************************************)
(* SpecPersist: the queue API on a store earlier runs filled, with writes   *)
(* of the queue file that can fail.                                         *)
(***************************************************************************)
InitPersist ==
    /\ queue_file \in InitQueues
    /\ clock = Len(queue_file)
    /\ checkpoint_file = {}
    /\ op = NoOp
    /\ n_ops = 0
    /\ GEMINI_API_KEY = TRUE
    /\ DEEPSEEK_API_KEY = TRUE
    /\ FEISHU_WEBHOOK_URL = TRUE
    /\ gemini_exhausted = FALSE /\ current_provider = "gemini"
    /\ ab = IdleCall /\ n_calls = 0
    /\ MainIdle
    /\ SysIdle

AddToQueueOnDisk ==
    /\ n_ops < MaxOps
    /\ \E items \in CandidateChoices, processed \in ProcessedChoices,
          write \in WriteOutcomes :
         /\ LET r == add_to_queue(queue_file, items, processed, clock, write)
            IN /\ r.now <= MaxClock
               /\ queue_file' = r.file
               /\ clock' = r.now
               /\ op' = [name |-> "add", processed_ids |-> processed,
                         added_count |-> r.added_count, write |-> write,
                         tried |-> add_to_queue(queue_file, items, processed,
                                                clock, "ok").file]
    /\ n_ops' = n_ops + 1
    /\ UNCHANGED <<analyzer_vars, main_vars>>
    /\ UNCHANGED <<sys_vars, sending>>

RemoveFromQueueOnDisk ==
    /\ n_ops < MaxOps
    /\ \E item_ids \in RemoveChoices, write \in WriteOutcomes :
         LET r == remove_from_queue(queue_file, item_ids, write)
         IN /\ queue_file' = r.file
            /\ op' = [name |-> "remove", item_ids |-> item_ids,
                      removed_count |-> r.removed_count, write |-> write]
    /\ n_ops' = n_ops + 1
    /\ UNCHANGED <<clock, analyzer_vars, main_vars>>
    /\ UNCHANGED <<sys_vars, sending>>

NextPersist == AddToQueueOnDisk \/ CallGetItemsToProcess \/ RemoveFromQueueOnDisk

SpecPersist == InitPersist /\ [][NextPersist]_vars

(***************************************************************************)
(* Properties of the queue store (checked under SpecQueue).                 *)
(***************************************************************************)
\* position of entry e in the sequence s (entries differ in added_at)
PosIn(s, e) == CHOOSE i \in DOMAIN s : s[i] = e

\* C1 (as claimed): no two entries of the queue file have the same id, also
\* after an enqueue whose candidate list names one id twice.
C1_UniqueIds ==
    \A i, j \in DOMAIN queue_file :
        i # j => queue_file[i].id # queue_file[j].id

\* C4: the persisted queue is sorted by relevance_score, highest first: for
\* all positions i < j, score(queue[i]) >= score(queue[j]).
C4_SortedByScore ==
    \A i, j \in DOMAIN queue_file :
        i < j => queue_file[i].relevance_score >= queue_file[j].relevance_score

\* C4 witness: after a removal the store still holds entries of different
\* scores, and an entry enqueued later stands ahead of an older one.
C4_Witness ==
    /\ op.name = "remove" /\ op.removed_count > 0
    /\ \E i, j \in DOMAIN queue_file :
          /\ i < j
          /\ queue_file[i].relevance_score > queue_file[j].relevance_score
          /\ queue_file[i].added_at > queue_file[j].added_at

\* C5: entries of equal score stand in enqueue order (an older entry ahead
\* of a newer one, entries of one call in candidate order), and a removal
\* keeps the remaining entries in the order they had.
C5_StableOrder ==
    /\ [](\A i, j \in DOMAIN queue_file :
            (i < j /\ queue_file[i].relevance_score = queue_file[j].relevance_score)
                => queue_file[i].added_at < queue_file[j].added_at)
    /\ [][op'.name = "remove" =>
            \A i, j \in DOMAIN queue_file' :
                i < j => /\ queue_file'[i] \in Range(queue_file)
                         /\ queue_file'[j] \in Range(queue_file)
                         /\ PosIn(queue_file, queue_file'[i])
                              < PosIn(queue_file, queue_file'[j])]_vars

\* C5 witness: the scores 2, 5, 2, 0 (a, b, c, d) enqueued in that order by
\* one call stand as 5, 2 (first), 2 (second), 0.
C5_Witness ==
    /\ op.name = "add" /\ op.added_count = 4
    /\ Len(queue_file) = 4
    /\ [i \in 1..4 |-> queue_file[i].id] = <<"b", "a", "c", "d">>
    /\ [i \in 1..4 |-> queue_file[i].relevance_score] = <<5, 2, 2, 0>>
    /\ queue_file[2].added_at < queue_file[1].added_at

\* C6: get_items_to_process(n) returns the first min(n, len) entries in
\* store order and leaves the file, and so the total of the stats, as it was.
C6_PeekNonDestructive ==
    [][op'.name = "peek" =>
          /\ Len(op'.items) = Min(op'.count, Len(queue_file))
          /\ \A i \in DOMAIN op'.items : op'.items[i] = queue_file[i]
          /\ queue_file' = queue_file
          /\ get_queue_stats_total(queue_file') = get_queue_stats_total(queue_file)]_vars

\* C6 witness: a peek of fewer entries than the store holds.
C6_Witness ==
    /\ op.name = "peek" /\ op.count > 0
    /\ Len(op.items) = op.count
    /\ Len(queue_file) > op.count

\* C7: remove_from_queue(ids) leaves exactly the entries whose id is not in
\* ids, counts the stored entries whose id is in ids, changes nothing when
\* no id is present, and a second call with the same ids changes nothing.
C7_ExactRemoval ==
    [][op'.name = "remove" =>
          LET ids == op'.item_ids
              hit == {i \in DOMAIN queue_file : queue_file[i].id \in ids}
          IN /\ Range(queue_file') = {e \in Range(queue_file) : e.id \notin ids}
             /\ Len(queue_file') = Len(queue_file) - Cardinality(hit)
             /\ op'.removed_count = Cardinality(hit)
             /\ (hit = {} => queue_file' = queue_file /\ op'.removed_count = 0)
             /\ remove_from_queue(queue_file', ids, "ok").file = queue_file'
             /\ remove_from_queue(queue_file', ids, "ok").removed_count = 0]_vars

\* C7 witness: a removal that names an absent id and takes out two entries,
\* leaving others behind.
C7_Witness ==
    /\ op.name = "remove" /\ "z" \in op.item_ids
    /\ op.removed_count = 2
    /\ queue_file # <<>>

(***************************************************************************)
(* Properties of analyze_batch (checked under SpecAnalyze).                 *)
(***************************************************************************)
CallsOf(provider) ==
    Cardinality({k \in DOMAIN ab.log : ab.log[k].provider = provider})

\* an analyze_batch call has returned; both credentials are set, the primary
\* was not exhausted when the call began, and every primary attempt of the
\* call raised a quota error
C3_EveryPrimaryAttemptQuota ==
    /\ ~ab.active /\ n_calls > 0
    /\ GEMINI_API_KEY /\ DEEPSEEK_API_KEY
    /\ ~ab.started_exhausted
    /\ \A k \in DOMAIN ab.log :
          ab.log[k].provider = "gemini" => ab.log[k].kind = "quota"

\* C3 (as claimed): such a call makes exactly MAX_RETRIES primary attempts,
\* then one secondary attempt, and leaves gemini_exhausted set.
C3_AsClaimed ==
    C3_EveryPrimaryAttemptQuota =>
        /\ CallsOf("gemini") = MAX_RETRIES
        /\ CallsOf("deepseek") = 1
        /\ gemini_exhausted

\* C3 (amended): such a call makes exactly MAX_RETRIES + 1 primary attempts
\* (the first attempt and MAX_RETRIES retries), then exactly one secondary
\* attempt, and gemini_exhausted is set; once set it is never reset.
C3_FailoverAfterRetries ==
    /\ [](C3_EveryPrimaryAttemptQuota =>
            /\ Len(ab.log) = MAX_RETRIES + 2
            /\ \A k \in 1..(MAX_RETRIES + 1) : ab.log[k].provider = "gemini"
            /\ ab.log[MAX_RETRIES + 2].provider = "deepseek"
            /\ gemini_exhausted)
    /\ [][gemini_exhausted => gemini_exhausted']_vars

\* C3 witness: a call that failed over after quota errors has returned.
C3_Witness ==
    /\ C3_EveryPrimaryAttemptQuota
    /\ gemini_exhausted
    /\ ab.log[Len(ab.log)].provider = "deepseek"

(***************************************************************************)
(* Properties of a run of main() (checked under Spec).                      *)
(***************************************************************************)
QueueIds == {queue_file[k].id : k \in DOMAIN queue_file}

\* C2 (as claimed): at the end of the run, no id of a chunk for which
\* analyze_batch returned no verdicts was added to the checkpoint, and its
\* entry is still queued.
C2_FailedChunksStayQueued ==
    pc = "done" =>
        \A id \in obs.failed_ids \ obs.ok_ids :
            /\ id \in checkpoint_file => id \in obs.checkpoint0
            /\ id \in QueueIds

\* the run of C8: nothing fetched, more than ITEMS_PER_RUN entries queued,
\* BATCH_SIZE divides ITEMS_PER_RUN, every chunk answered with one verdict
\* per item, at least one of them relevant
C8_Scenario ==
    /\ pc = "done"
    /\ obs.fetched = 0
    /\ Len(obs.queue0) > ITEMS_PER_RUN
    /\ ITEMS_PER_RUN % BATCH_SIZE = 0
    /\ obs.failed_ids = {} /\ obs.all_ok
    /\ obs.relevant_verdicts > 0

\* C8 (as claimed): in that run exactly ITEMS_PER_RUN entries are peeked and
\* split into full chunks, the checkpoint gains their ids, the queue is left
\* with the Q - ITEMS_PER_RUN entries of lowest priority, and one summary is
\* sent, reporting the number of relevant verdicts.
C8_EndToEnd ==
    C8_Scenario =>
        /\ items_to_process = SubSeq(obs.queue0, 1, ITEMS_PER_RUN)
        /\ Len(batches) = ITEMS_PER_RUN \div BATCH_SIZE
        /\ \A k \in DOMAIN batches : Len(batches[k]) = BATCH_SIZE
        /\ obs.n_classify = Len(batches)
        /\ checkpoint_file = obs.checkpoint0
               \cup {items_to_process[k].id : k \in DOMAIN items_to_process}
        /\ Len(queue_file) = Len(obs.queue0) - ITEMS_PER_RUN
        /\ queue_file = SubSeq(obs.queue0, ITEMS_PER_RUN + 1, Len(obs.queue0))
        /\ obs.n_summary = 1
        /\ obs.summary_relevant = obs.relevant_verdicts

\* the same run on a store whose ids are unique
C8_EndToEndUniqueIds ==
    (\A i, j \in DOMAIN obs.queue0 : i # j => obs.queue0[i].id # obs.queue0[j].id)
        => C8_EndToEnd

\* C9: a step never puts into the queue an entry whose id is in the set of
\* processed ids handed to add_to_queue, which is the checkpoint as earlier
\* runs left it.
C9_ProcessedNotEnqueued ==
    [][\A k \in DOMAIN queue_file' :
          queue_file'[k] \notin Range(queue_file) =>
              /\ queue_file'[k].id \notin processed_ids
              /\ queue_file'[k].id \notin checkpoint_file]_vars

\* C9 witness: the enqueue of a run added entries and left out a fetched
\* item that passes the prefilter and whose id is in the checkpoint.
C9_Witness ==
    /\ pc = "dequeue"
    /\ obs.added > 0
    /\ \E k \in DOMAIN new_items :
          /\ KeepTable[new_items[k]]
          /\ item_id_of(new_items[k]) \in checkpoint_file
          /\ item_id_of(new_items[k]) \notin QueueIds

\* C10: when the peek returns nothing the run goes straight to done: no
\* analyze_batch call, no provider call, no notification, no summary, no
\* checkpoint write and no removal, and both stores are as the run found them.
C10_EmptyPeekEndsRun ==
    /\ []((pc = "done" /\ items_to_process = <<>>) =>
            /\ obs.n_classify = 0 /\ obs.n_provider = 0
            /\ obs.n_notify = 0 /\ obs.n_summary = 0
            /\ obs.n_checkpoint = 0 /\ obs.n_remove = 0
            /\ checkpoint_file = obs.checkpoint0
            /\ queue_file = obs.queue0)
    /\ [][(pc = "dequeue" /\ items_to_process' = <<>>) => pc' = "done"]_vars

\* C10 witness: a run that fetched items, enqueued none and found the queue
\* empty has ended.
C10_Witness ==
    /\ pc = "done"
    /\ items_to_process = <<>>
    /\ obs.fetched > 0

\* the run has ended: main() returned, exited or raised
RunEnded == pc \in {"done", "exit1", "crashed"}

\* C11 (as claimed): a run that found relevant items sends exactly one
\* summary, a run that found none sends no summary, and a summary is sent
\* only after the queue removal of the run.
C11_OneSummaryAfterAck ==
    /\ RunEnded =>
          /\ total_relevant > 0 => obs.n_summary = 1
          /\ total_relevant = 0 => obs.n_summary = 0
    /\ obs.n_summary > 0 => obs.n_remove = 1

\* the same for the runs in which main() returns
C11_OneSummaryWhenReturned ==
    (RunEnded /\ pc # "crashed") => C11_OneSummaryAfterAck

\* the provider call an activation of analyze_batch made, if it made one
Invoked(provider) ==
    /\ Len(ab'.log) = Len(ab.log) + 1
    /\ ab'.log[Len(ab'.log)].provider = provider

\* C12: an activation of analyze_batch on a chunk invokes the primary exactly
\* when its credential is set and gemini_exhausted is false; otherwise it
\* invokes the secondary when that credential is set, and otherwise invokes
\* nothing and returns no verdicts.  Once gemini_exhausted is true it stays
\* true and no activation invokes the primary.
C12_ProviderSelection ==
    [][ab.active =>
          LET primary == GEMINI_API_KEY /\ ~gemini_exhausted
          IN /\ Invoked("gemini") <=> primary
             /\ Invoked("deepseek") <=> (~primary /\ DEEPSEEK_API_KEY)
             /\ (~primary /\ ~DEEPSEEK_API_KEY) =>
                   /\ ab'.log = ab.log
                   /\ ~ab'.active /\ ab'.results = <<>>
             /\ gemini_exhausted => (gemini_exhausted' /\ ~Invoked("gemini"))]_vars

\* C12 witness: with both credentials set, a call entered after the primary
\* was marked exhausted has invoked the secondary and returned.
C12_Witness ==
    /\ GEMINI_API_KEY /\ DEEPSEEK_API_KEY
    /\ ab.started_exhausted /\ ~ab.active
    /\ Len(ab.log) = 1 /\ ab.log[1].provider = "deepseek"

\* the provider call of this activation failed (it raised, or answered None
\* so that parsing raised) and was not a quota error of the primary
OtherError ==
    /\ Len(ab'.log) = Len(ab.log) + 1
    /\ LET e == ab'.log[Len(ab'.log)]
       IN \/ e.kind \in {"error", "none"}
          \/ e.kind = "quota" /\ e.provider = "deepseek"

\* C13: after a provider error that is not a quota error of the primary,
\* analyze_batch returns at once with no verdicts: no further provider call
\* is made for the chunk and gemini_exhausted is as it was.
C13_OtherErrorSkipsChunk ==
    [][(ab.active /\ OtherError) =>
          /\ ~ab'.active
          /\ ab'.results = <<>>
          /\ gemini_exhausted' = gemini_exhausted]_vars

\* C13 witness: after the failover of a chunk the secondary raised a quota
\* error, and the call returned nothing.
C13_Witness ==
    /\ ~ab.active /\ ab.results = <<>>
    /\ ~ab.started_exhausted /\ gemini_exhausted
    /\ Len(ab.log) = MAX_RETRIES + 2
    /\ ab.log[Len(ab.log)] = [provider |-> "deepseek", kind |-> "quota"]

\* the verdicts the claim honours: an object with an integer index within
\* the chunk and the boolean true as is_relevant
ValidRelevant(r, n) ==
    /\ r.is_dict /\ r.has_index
    /\ r.index_type = "int" /\ 0 <= r.index /\ r.index < n
    /\ r.is_relevant /\ r.relevant_is_bool

\* C14 (as claimed): the handling of a chunk's verdicts never raises, and the
\* relevant items of the chunk are chunk[index] for exactly the verdicts with
\* an integer index in range and is_relevant true, in the verdicts' order;
\* every other verdict is dropped.
C14_OnlyValidVerdictsCount ==
    [][pc = "notify" =>
          LET valid == SelectSeq(results,
                           LAMBDA r : ValidRelevant(r, Len(batch_items)))
              claimed == [k \in 1..Len(valid) |-> batch_items[valid[k].index + 1]]
          IN /\ pc' \in {"send", "record"}
             /\ relevant_in_batch(results, batch_items) = claimed
             /\ sending'.items = claimed]_vars

\* the run's count of relevant items is at most the number of items peeked
C15_TotalRelevantBounded == total_relevant <= Len(items_to_process)

\* C15 (as claimed): analyze_batch returns at most len(chunk) verdicts, so
\* the relevant items of a chunk are at most the chunk's size and the run's
\* total_relevant is at most the number of items peeked.
C15_VerdictsBoundedByChunk ==
    /\ pc = "notify" =>
          /\ Len(results) <= Len(batch_items)
          /\ results_raise(results, batch_items)
               \/ Len(relevant_in_batch(results, batch_items)) <= Len(batch_items)
    /\ C15_TotalRelevantBounded

(***************************************************************************)
(* Properties of pre_filter (checked under SpecFilter).                     *)
(***************************************************************************)
\* C16 (as claimed): the result is the input with exactly the items left out
\* that the age rule drops or whose lower-cased title+content (the two joined
\* directly) contains an exclude phrase.
C16_AsClaimed ==
    op.name = "pre_filter" =>
        op.filtered = SelectSeq(op.items, LAMBDA item :
            /\ ~is_post_too_old(item)
            /\ ~\E k \in DOMAIN EXCLUDE_KEYWORDS :
                   contains(lower(item.title \o item.content),
                            lower(EXCLUDE_KEYWORDS[k])))

\* C16 (amended): the result is the input, in order, with exactly the items
\* left out that the age rule drops or whose lower-cased text - title, one
\* space, content - contains a lower-cased exclude phrase; the relevance
\* keywords play no part.
C16_FilterKeepsExactly ==
    op.name = "pre_filter" =>
        op.filtered = SelectSeq(op.items, LAMBDA item :
            /\ ~is_post_too_old(item)
            /\ ~\E k \in DOMAIN EXCLUDE_KEYWORDS :
                   contains(lower(item.title \o <<" ">> \o item.content),
                            lower(EXCLUDE_KEYWORDS[k])))

\* C16 witness: a list of an item that hits a relevance keyword and an
\* exclude phrase and an item that hits neither was filtered: the first is
\* dropped, the second kept.
C16_Witness ==
    /\ op.name = "pre_filter"
    /\ op.items = <<item_j, item_d>>
    /\ keyword_hits(item_j) > 0 /\ keyword_hits(item_d) = 0
    /\ op.filtered = <<item_d>>

\* C17: pre_filter keeps an item published exactly MAX_POST_AGE_DAYS days
\* ago (unless the exclusion rule drops it), drops an item published one day
\* earlier, and never drops for its age an item whose published field is
\* missing or does not parse.
C17_AgeBoundary ==
    op.name = "pre_filter" =>
        \A k \in DOMAIN op.items :
            LET item == op.items[k]
                kept == item \in Range(op.filtered)
            IN /\ (item.published = "date" /\ item.age_days = MAX_POST_AGE_DAYS
                     /\ ~should_exclude(item)) => kept
               /\ (item.published = "date" /\ item.age_days = MAX_POST_AGE_DAYS + 1)
                     => ~kept
               /\ (item.published \in {"missing", "unparseable"}
                     /\ ~should_exclude(item)) => kept

\* C17 witness: a post of exactly seven days, a post of eight days and a post
\* of thirty days whose date does not parse were filtered: the first and the
\* last are kept.
C17_Witness ==
    /\ op.name = "pre_filter"
    /\ {item_a, item_o, item_u} \subseteq Range(op.items)
    /\ item_a.age_days = MAX_POST_AGE_DAYS /\ item_o.age_days = MAX_POST_AGE_DAYS + 1
    /\ op.filtered = SelectSeq(op.items, LAMBDA item : item # item_o)

(***************************************************************************)
(* More properties of a run of main() (checked under Spec).                 *)
(***************************************************************************)
\* the cards of the batch the webhook accepted so far
accepted_so_far == Cardinality({k \in DOMAIN sending.oks : sending.oks[k]})

\* C18 (as claimed): total_sent <= total_relevant at every point of the run,
\* and a run that returns after peeking items has checkpointed every chunk
\* and removed from the queue.
C18_SentNeverAboveRelevant ==
    /\ total_sent <= total_relevant
    /\ (pc = "done" /\ items_to_process # <<>>) =>
          (obs.n_checkpoint = total_batches /\ obs.n_remove = 1)

\* C18 (amended): a notification that fails stops nothing.  Every relevant
\* item of a batch is posted, whatever the earlier posts of the batch
\* answered, and only then does send_batch_to_feishu return; total_sent
\* counts exactly the posts the endpoint accepted.  main() adds to total_sent
\* (142) before it adds to total_relevant (143): between the two statements
\* total_sent is at most total_relevant plus the size of the batch's relevant
\* list, and everywhere else total_sent <= total_relevant.  After the posts
\* the stage is the recording of the chunk's ids (main() leaves the loop
\* early only on verdicts it cannot handle, before anything is posted), and
\* a run that returns after peeking items has checkpointed every chunk and
\* removed from the queue.
C18_NotifyFailureDoesNotStop ==
    /\ [](/\ pc \notin {"send", "count"} =>
                /\ total_sent <= total_relevant
                /\ total_sent = obs.n_accepted
                /\ obs.n_notify = total_relevant
          /\ pc = "send" =>
                /\ total_sent <= total_relevant
                /\ obs.n_accepted = total_sent + accepted_so_far
                /\ obs.n_notify = total_relevant + Len(sending.oks)
                /\ Len(sending.oks) <= Len(sending.items)
          /\ pc = "count" =>
                /\ total_sent <= total_relevant + Len(sending.items)
                /\ total_sent = obs.n_accepted
                /\ obs.n_notify = total_relevant + Len(sending.items)
                /\ Len(sending.oks) = Len(sending.items)
          /\ (pc = "done" /\ items_to_process # <<>>) =>
                (obs.n_checkpoint = total_batches /\ obs.n_remove = 1))
    /\ [][/\ pc = "notify" =>
               /\ pc' = "crashed" <=> results_raise(results, batch_items)
               /\ pc' # "crashed" => pc' \in {"send", "record"}
          /\ pc = "send" =>
               /\ pc' \in {"send", "count"}
               /\ pc' = "send" => Len(sending'.oks) = Len(sending.oks) + 1
               /\ pc' = "count" =>
                     /\ Len(sending.oks) = Len(sending.items)
                     /\ total_sent' = total_sent + accepted_so_far
          /\ pc = "count" =>
               /\ pc' = "record"
               /\ total_relevant' = total_relevant + Len(sending.items)]_vars

\* C18 witness: a run of two chunks in which a send of the first chunk failed
\* has returned, both chunks checkpointed and the removal done.
C18_Witness ==
    /\ pc = "done"
    /\ total_sent < total_relevant
    /\ obs.n_classify = 2 /\ obs.n_checkpoint = 2 /\ obs.n_remove = 1
    /\ obs.n_accepted < obs.n_notify

\* C18, between the two additions: the first card of a batch of two was
\* refused and the second accepted; total_sent is 1 and total_relevant still 0
C18_BetweenTheAdditions ==
    /\ pc = "count"
    /\ sending.oks = <<FALSE, TRUE>>
    /\ total_sent = 1 /\ total_relevant = 0

(***************************************************************************)
(* Properties of the queue API on a failing disk (checked under SpecPersist) *)
(***************************************************************************)
\* C19 (as claimed): an enqueue or a removal whose write of the queue file
\* fails leaves the queue file exactly as it was, so that a peek and the
\* stats after it see the old contents; the enqueue still returns the number
\* of entries it tried to add.
C19_FailedWriteKeepsOldQueue ==
    [][(op'.name \in {"add", "remove"} /\ op'.write # "ok") =>
          /\ queue_file' = queue_file
          /\ get_items_to_process(queue_file', ITEMS_PER_RUN).items
               = get_items_to_process(queue_file, ITEMS_PER_RUN).items
          /\ get_queue_stats_total(queue_file') = get_queue_stats_total(queue_file)
          /\ op'.name = "add" =>
                op'.added_count = Len(op'.tried) - Len(queue_file)]_vars

\* the same for the writes that fail before the file is opened
C19_FailedOpenKeepsOldQueue ==
    [][(op'.name \in {"add", "remove"} /\ op'.write = "open_fails") =>
          /\ queue_file' = queue_file
          /\ op'.name = "add" =>
                op'.added_count = Len(op'.tried) - Len(queue_file)]_vars

\* ---------------------------------------------------------------------------
\* C20

ConfigMissing ==
    ~GEMINI_API_KEY \/ ~FEISHU_WEBHOOK_URL

\* C20: when GEMINI_API_KEY or FEISHU_WEBHOOK_URL is not set at startup, the
\* first step of the run is the exit with status 1; at that exit nothing has
\* been fetched, the checkpoint has not been loaded, no queue call, classifier
\* call or notification has been made, and the step leaves the queue file and
\* the checkpoint file as they were; nothing happens after the exit.
C20_MissingConfigExits ==
    [][/\ (pc = "start" /\ ConfigMissing) =>
            /\ pc' = "exit1"
            /\ queue_file' = queue_file
            /\ checkpoint_file' = checkpoint_file
            /\ processed_ids' = {} /\ new_items' = <<>>
            /\ obs' = NoObs /\ op' = NoOp /\ ab' = IdleCall
            /\ n_ops' = 0 /\ n_calls' = 0
       /\ pc # "exit1"]_vars

C20_Witness ==
    /\ pc = "exit1"
    /\ GEMINI_API_KEY /\ DEEPSEEK_API_KEY /\ ~FEISHU_WEBHOOK_URL
    /\ queue_file # <<>> /\ checkpoint_file # {}
    /\ processed_ids = {} /\ obs = NoObs

\* ---------------------------------------------------------------------------
\* C21

\* the events of batch k, in the order they happened
EventsOf(k) == SelectSeq(obs.events, LAMBDA ev : ev.k = k)

\* the names of a sequence of events
Names(evs) == [i \in DOMAIN evs |-> evs[i].e]

\* what a batch can have logged so far: a prefix of classify, (notify,)
\* record, persist(, sleep)
IsPrefix(s, t) == Len(s) <= Len(t) /\ s = SubSeq(t, 1, Len(s))

BatchOrders(k, n_batches) ==
    LET tail == IF k < n_batches THEN <<"sleep">> ELSE <<>>
    IN {<<"classify", "notify", "record", "persist">> \o tail,
        <<"classify", "record", "persist">> \o tail}

\* the batch is complete in the log
BatchDone(k, n_batches) == Names(EventsOf(k)) \in BatchOrders(k, n_batches)

\* C21: the batches are the consecutive BATCH_SIZE slices of the peeked
\* entries and are handled in that order; for each batch the steps are
\* classify, notify (when something is relevant), record the ids, persist the
\* checkpoint, in this order; the ids recorded are those of every entry of
\* the batches handled so far; nothing of batch k+1 happens before batch k
\* has persisted (and slept); the delay is taken after every batch but the
\* last, so total_batches - 1 times once the loop has ended.
C21_ChunkOrder ==
    /\ \A i, j \in DOMAIN obs.events : i < j => obs.events[i].k <= obs.events[j].k
    /\ \A k \in 1..Len(batches) :
          /\ \E o \in BatchOrders(k, total_batches) : IsPrefix(Names(EventsOf(k)), o)
          /\ (k < Len(batches) /\ EventsOf(k + 1) # <<>>) => BatchDone(k, total_batches)
    /\ \A i \in DOMAIN obs.events : obs.events[i].k \in 1..Len(batches)
    /\ pc = "analyze" =>
          ab.items = SubSeq(items_to_process, batch_idx * BATCH_SIZE + 1,
                            Min((batch_idx + 1) * BATCH_SIZE, Len(items_to_process)))
    /\ pc \in {"classify", "analyze", "notify", "send", "count", "record"} =>
          /\ processed_item_ids =
                ids_of(SubSeq(items_to_process, 1, batch_idx * BATCH_SIZE))
          /\ Range(processed_item_ids) \subseteq checkpoint_file
    /\ pc \in {"checkpoint", "delay"} =>
          /\ processed_item_ids =
                ids_of(SubSeq(items_to_process, 1,
                              Min((batch_idx + 1) * BATCH_SIZE, Len(items_to_process))))
          /\ Range(ids_of(SubSeq(items_to_process, 1, batch_idx * BATCH_SIZE)))
                \subseteq checkpoint_file
          /\ pc = "delay" => Range(processed_item_ids) \subseteq checkpoint_file
    /\ (pc \in {"ack", "summarize", "finish", "done"} /\ items_to_process # <<>>) =>
          /\ processed_item_ids = ids_of(items_to_process)
          /\ \A k \in 1..total_batches : BatchDone(k, total_batches)
          /\ Len(SelectSeq(obs.events, LAMBDA ev : ev.e = "sleep")) = total_batches - 1

\* C21 witness: a run of two batches has ended; the first batch notified and
\* slept, the second did neither.
C21_Witness ==
    /\ pc = "done"
    /\ total_batches = 2
    /\ Names(EventsOf(1)) = <<"classify", "notify", "record", "persist", "sleep">>
    /\ Names(EventsOf(2)) = <<"classify", "record", "persist">>

\* ---------------------------------------------------------------------------
\* C23

\* some entry of the queue file is gone after the step
EntryRemoved == \E e \in Range(queue_file) : e \notin Range(queue_file')

\* C23: entries leave the queue file only in the step at ACK, which comes
\* after the checkpoint of the last batch; that step is one call of
\* remove_from_queue with all the ids recorded in the run; when a run that
\* peeked something is done, no peeked entry is left in the queue file.
C23_RemovalOnlyAtAck ==
    /\ [](/\ obs.n_remove <= 1
          /\ obs.n_remove = 1 => pc \in {"summarize", "finish", "done"}
          /\ (pc = "done" /\ items_to_process # <<>>) =>
                /\ obs.n_remove = 1
                /\ \A e \in Range(items_to_process) : e \notin Range(queue_file))
    /\ [][/\ EntryRemoved => pc = "ack"
          /\ pc = "ack" =>
                /\ obs.n_checkpoint = total_batches
                /\ BatchDone(total_batches, total_batches)
                /\ processed_item_ids = ids_of(items_to_process)
                /\ obs'.n_remove = 1
                /\ queue_file' = SelectSeqNotIn(queue_file, Range(processed_item_ids))]_vars

\* C23 witness: a run of two batches is done; its four peeked entries are out
\* of the queue file and entries it did not peek are still there.
C23_Witness ==
    /\ pc = "done"
    /\ total_batches = 2 /\ Len(items_to_process) = ITEMS_PER_RUN
    /\ obs.n_remove = 1
    /\ queue_file # <<>>
    /\ \A e \in Range(items_to_process) : e \notin Range(queue_file)

\* ---------------------------------------------------------------------------
\* C26

\* an analyze_batch call entered with the primary usable has returned after
\* MAX_RETRIES + 1 primary attempts that all raised a quota error
PrimaryRetriesExhausted ==
    /\ ~ab.active /\ n_calls > 0
    /\ GEMINI_API_KEY /\ ~ab.started_exhausted
    /\ CallsOf("gemini") = MAX_RETRIES + 1
    /\ \A k \in DOMAIN ab.log :
          ab.log[k].provider = "gemini" => ab.log[k].kind = "quota"

\* C26 (as claimed): when the quota retries of the primary are used up on a
\* chunk, gemini_exhausted is set whether or not the secondary has a
\* credential; without that credential the chunk ends with no verdicts.
C26_ExhaustedWithOrWithoutSecondary ==
    PrimaryRetriesExhausted =>
        /\ gemini_exhausted
        /\ ~DEEPSEEK_API_KEY => ab.results = <<>>

\* what the code does: gemini_exhausted is set only by a failover, so only
\* with the secondary's credential; without it the chunk is skipped and the
\* flag stays false.
C26_ExhaustedOnlyOnFailover ==
    /\ [](PrimaryRetriesExhausted =>
            /\ gemini_exhausted <=> DEEPSEEK_API_KEY
            /\ ~DEEPSEEK_API_KEY => (ab.results = <<>> /\ CallsOf("deepseek") = 0))
    /\ [][(~gemini_exhausted /\ gemini_exhausted') => DEEPSEEK_API_KEY]_vars

\* ---------------------------------------------------------------------------
\* C27

\* analyze_batch is entered at most once per batch, and a call invokes the
\* providers at most MAX_RETRIES + 2 times (MAX_RETRIES + 1 times the primary,
\* once the secondary)
C27_BoundedInvocations ==
    /\ obs.n_classify <= total_batches
    /\ pc \in {"classify", "analyze"} =>
          obs.n_classify = batch_idx + (IF pc = "analyze" THEN 1 ELSE 0)
    /\ obs.n_provider <= obs.n_classify * (MAX_RETRIES + 2)

\* C27 (as claimed): whatever the providers answer and whatever the notifier
\* does, a run that has started its work ends in DONE, with analyze_batch
\* called exactly once for every batch and a bounded number of provider
\* invocations per call.
C27_EveryRunReachesDone ==
    /\ C27_BoundedInvocations
    /\ pc # "crashed"
    /\ (pc = "done" /\ items_to_process # <<>>) => obs.n_classify = total_batches

\* ---------------------------------------------------------------------------
\* C22 (checked under SpecRuns)

\* the process died while it was handling batch k >= 2 (batch_idx >= 1):
\* killed in one of the steps of the loop, or by an exception of the loop
CrashedInLaterBatch ==
    /\ pc = "crashed"
    /\ hist.crash_pc \in {"none", "classify", "analyze", "notify", "send", "count",
                         "record", "checkpoint", "delay"}
    /\ batch_idx >= 1

\* the checkpoint file holds every id of the batches before the current one
\* and every id that was loaded when the run started
EarlierBatchesDurable ==
    /\ Range(ids_of(SubSeq(items_to_process, 1, batch_idx * BATCH_SIZE)))
          \subseteq checkpoint_file
    /\ obs.checkpoint0 \subseteq checkpoint_file

\* C22 (as claimed): wherever the process dies while batch k >= 2 is being
\* handled, the checkpoint file holds every id of batches 1..k-1 and is a
\* superset of the checkpoint loaded at the start of the run.
C22_CrashKeepsEarlierChunks ==
    CrashedInLaterBatch => EarlierBatchesDurable

\* what holds: the same, for a process that dies between two steps and not
\* inside the write of the checkpoint file
C22_CrashBetweenWrites ==
    (CrashedInLaterBatch /\ ~hist.mid_write) => EarlierBatchesDurable

\* ---------------------------------------------------------------------------
\* C24 (checked under SpecRuns)

\* the number of entries of the queue q that have the id z
CountOf(z, q) == Cardinality({k \in DOMAIN q : q[k].id = z})

\* the ids of the chunks of this run whose checkpoint save has returned
saved_ids ==
    Range(ids_of(SubSeq(items_to_process, 1,
                        Min(obs.n_checkpoint * BATCH_SIZE, Len(items_to_process)))))

\* the entry with the id z was among the entries this run peeked
Peeked(z) == \E k \in DOMAIN items_to_process : items_to_process[k].id = z

\* the process died after a checkpoint save of this run had returned and
\* before remove_from_queue opened the queue file: killed at any step from
\* there on, a write of the checkpoint included, or ended by an exception of
\* the loop
CrashedInGap ==
    /\ pc = "crashed"
    /\ obs.n_checkpoint >= 1
    /\ hist.crash_pc \in {"none", "classify", "analyze", "notify", "send", "count",
                         "record", "checkpoint", "delay", "ack"}
    /\ ~(hist.crash_pc = "ack" /\ hist.mid_write)

\* the kill came inside the save of a later chunk's checkpoint
CheckpointTorn == hist.crash_pc = "checkpoint" /\ hist.mid_write

\* C24 (as claimed): an entry left checkpointed and queued by a crash stays
\* in the queue for good: no step of a later run, other than a crash, takes
\* it out.
C24_ZombieIsPermanent ==
    [][pc' # "crashed" =>
          \A z \in hist.zombies :
              CountOf(z, queue_file) > 0 => CountOf(z, queue_file') > 0]_vars

\* C24 (amended): after such a crash an entry of a chunk whose checkpoint
\* save returned is still queued; its id is in the checkpoint file, unless
\* the kill came inside the save of a later chunk, which leaves the
\* checkpoint file without any id.  In the later runs the id of an entry
\* left checkpointed and queued is enqueued only when it is neither queued
\* nor in the loaded checkpoint; its entry is taken out only by the removal
\* at ACK of a run that peeked it, or lost with the whole queue when a write
\* of the queue file is cut short.  A later run that reaches DONE has removed
\* it if its peek returned it, and has left it as it found it if not.
C24_ZombieUntilPeeked ==
    /\ [](/\ CrashedInGap =>
                /\ saved_ids # {}
                /\ \A z \in saved_ids : CountOf(z, queue_file) > 0
                /\ IF CheckpointTorn
                   THEN checkpoint_file = interrupted_save_processed_posts
                   ELSE saved_ids \subseteq checkpoint_file /\ saved_ids \subseteq zombie_ids
          /\ (run_no > 1 /\ pc = "done") =>
                \A z \in hist.zombies :
                    /\ Peeked(z) => CountOf(z, queue_file) = 0
                    /\ (~Peeked(z) /\ CountOf(z, obs.queue0) > 0) =>
                          CountOf(z, queue_file) = CountOf(z, obs.queue0))
    /\ [][\A z \in hist.zombies :
            /\ CountOf(z, queue_file') > CountOf(z, queue_file) =>
                  /\ pc = "enqueue"
                  /\ CountOf(z, queue_file) = 0
                  /\ z \notin processed_ids
            /\ CountOf(z, queue_file') < CountOf(z, queue_file) =>
                  \/ pc = "ack" /\ z \in Range(processed_item_ids)
                  \/ pc' = "crashed" /\ hist'.mid_write /\ queue_file' = <<>>]_vars

\* C24 witness: the first run died in the gap and left zombies; the second
\* run is done: a zombie its peek returned is out of the queue, and a zombie
\* that new entries pushed behind the ITEMS_PER_RUN entries of the peek is
\* still queued and checkpointed.
C24_Witness ==
    /\ run_no = 2 /\ pc = "done"
    /\ \E z \in hist.zombies :
          /\ Peeked(z)
          /\ z \in checkpoint_file
          /\ CountOf(z, queue_file) = 0
    /\ \E z \in hist.zombies :
          /\ ~Peeked(z)
          /\ z \in checkpoint_file
          /\ CountOf(z, queue_file) = 1

\* C24, the torn checkpoint: the first chunk was saved and the process was
\* killed inside the save of the second; the entries of the first chunk are
\* queued and the checkpoint file holds nothing
C24_TornCheckpoint ==
    /\ CrashedInGap /\ CheckpointTorn
    /\ \E z \in saved_ids : CountOf(z, queue_file) = 1 /\ z \notin checkpoint_file

\* ---------------------------------------------------------------------------
\* C28

\* a run that fetched nothing and found the queue non-empty is done
QuietRunDone ==
    pc = "done" /\ obs.fetched = 0 /\ obs.queue0 # <<>>

\* C28 (as claimed): a run that fetches nothing, does not crash and finds the
\* queue non-empty shortens the queue by exactly
\* min(ITEMS_PER_RUN, queue length), so such runs empty the queue.
C28_RunDrainsExactly ==
    QuietRunDone =>
        Len(queue_file) = Len(obs.queue0) - Min(ITEMS_PER_RUN, Len(obs.queue0))

\* what holds: such a run shortens the queue by at least that much (by more
\* when an id it peeked is queued a second time further down), so the queue
\* still drains.
C28_RunDrainsAtLeast ==
    QuietRunDone =>
        /\ Len(queue_file) <= Len(obs.queue0) - Min(ITEMS_PER_RUN, Len(obs.queue0))
        /\ Len(queue_file) < Len(obs.queue0)

\* ---------------------------------------------------------------------------
\* C25 (checked under SpecOverlap)

\* a process is inside save_queue: it has opened the file and not written it
Writing == \E p \in Procs : procs[p].pc = "opened"

\* the call of process p is finished, no write of the file is under way, and
\* the effect of the call is not in the file: an entry it enqueued is absent,
\* or an entry it removed is there again
LostUpdate(p) ==
    /\ procs[p].pc = "saved"
    /\ ~Writing
    /\ \E id \in procs[p].done_ids :
          IF procs[p].op = "add" THEN CountOf(id, queue_file) = 0
          ELSE CountOf(id, queue_file) > 0

\* one call was entered while the other was between its read and its write
Overlapped == \E p \in Procs : procs[p].overlapped

\* C25: an update of the queue file is lost only when the two calls overlap:
\* calls that run one after the other never leave an enqueued entry absent
\* or a removed entry present.  (That overlapping calls do lose updates is
\* the witness.)
C25_LostUpdateOnlyWhenOverlapped ==
    \A p \in Procs : LostUpdate(p) => Overlapped

\* C25 witness: both calls are finished, they overlapped, and the entry that
\* one process enqueued is absent from the queue file.
C25_Witness ==
    /\ \A p \in Procs : procs[p].pc = "saved"
    /\ Overlapped
    /\ \E p \in Procs : procs[p].op = "add" /\ LostUpdate(p)

\* the other loss: an entry that one process removed is there again
C25_RemovedEntryBack ==
    /\ \A p \in Procs : procs[p].pc = "saved"
    /\ Overlapped
    /\ \E p \in Procs : procs[p].op = "remove" /\ LostUpdate(p)

\* a third loss: one process read the file while the other had it open for
\* writing, and an entry of the store that neither call removed is gone
C25_UntouchedEntryGone ==
    /\ \A p \in Procs : procs[p].pc = "saved"
    /\ Overlapped
    /\ \A p \in Procs : "d" \notin procs[p].item_ids
    /\ CountOf("d", queue_file) = 0

\* a fourth: the shorter list was written over the longer one, and the file
\* is no JSON document; it reads as the empty queue
C25_FileGarbled ==
    /\ \A p \in Procs : procs[p].pc = "saved"
    /\ \E p \in Procs :
          dump_chars(procs[p].result, whole_seconds,
                     procs[p].last_updated_whole) < procs[p].on_disk
    /\ queue_file = <<>>

====
